---- MODULE Spec2Model ----
(***************************************************************************)
(* Crisis risk assessment and escalation engine of the Mental Wellness     *)
(* Coach backend (backend/services/crisis_service.py).                     *)
(*                                                                         *)
(* Text is modelled by TLA+ strings and keyword detection by real          *)
(* substring search.  Python floats are modelled by exact fixed-point      *)
(* integers in units of 1/FP: every product and sum the service computes   *)
(* from its catalog is a whole number of such units.                       *)
(***************************************************************************)
EXTENDS Integers, Sequences, FiniteSets, TLC

\* ------------------------------------------------------------------ bounds
\* largest number of vocabulary fragments joined into one content string
MaxFrags == 2
\* largest number of rows of the crisis_events table
MaxEvents == 2
\* largest number of escalate_crisis calls in one behaviour
MaxEscalations == 2

\* largest number of update_intervention_status requests in one behaviour
MaxUpdates == 2
\* largest numbers of keywords and of context modifiers of one pattern put into
\* a text handed to _evaluate_pattern on its own
MaxKeywords == 2
MaxModifiers == 3
\* largest number of risk factors handed to _determine_crisis_level on its own
MaxFactors == 3

\* fixed-point unit: the float 1.0
FP == 10000

\* ----------------------------------------------------------- Python values
\* None (a JSON null reaching the service as content)
None == [type |-> "NoneType"]
\* a str object
Str(s) == [type |-> "str", v |-> s]

Min(a, b) == IF a < b THEN a ELSE b

\* list[:n]
Take(list, n) == SubSeq(list, 1, Min(n, Len(list)))

\* `sub in s` for two str
Contains(s, sub) ==
    \E i \in 1..(Len(s) - Len(sub) + 1) : SubSeq(s, i, i + Len(sub) - 1) = sub

\* any(x in s for x in list)
ContainsAny(s, list) == \E j \in 1..Len(list) : Contains(s, list[j])

UpperCase == "ABCDEFGHIJKLMNOPQRSTUVWXYZ"
LowerCase == "abcdefghijklmnopqrstuvwxyz"

\* the lower-case letter of every upper-case letter
LowerTable ==
    [ c \in { SubSeq(UpperCase, i, i) : i \in 1..Len(UpperCase) } |->
        LET i == CHOOSE i \in 1..Len(UpperCase) : SubSeq(UpperCase, i, i) = c
        IN  SubSeq(LowerCase, i, i) ]

\* str.lower() of one character
LowerChar(c) == IF c \in DOMAIN LowerTable THEN LowerTable[c] ELSE c

\* the characters i..j of s in lower case (halving keeps the evaluation shallow)
RECURSIVE LowerFrom(_, _, _)
LowerFrom(s, i, j) ==
    IF i > j THEN ""
    ELSE IF i = j THEN LowerChar(SubSeq(s, i, i))
    ELSE LowerFrom(s, i, (i + j) \div 2) \o LowerFrom(s, (i + j) \div 2 + 1, j)

\* str.lower()
lower(s) == LowerFrom(s, 1, Len(s))

IsSpace(c) == c = " "

\* str.strip()
strip(s) ==
    IF \A i \in 1..Len(s) : IsSpace(SubSeq(s, i, i)) THEN ""
    ELSE LET a == CHOOSE i \in 1..Len(s) :
                    /\ ~IsSpace(SubSeq(s, i, i))
                    /\ \A j \in 1..(i - 1) : IsSpace(SubSeq(s, j, j))
             b == CHOOSE i \in 1..Len(s) :
                    /\ ~IsSpace(SubSeq(s, i, i))
                    /\ \A j \in (i + 1)..Len(s) : IsSpace(SubSeq(s, j, j))
         IN  SubSeq(s, a, b)

\* ------------------------------------------------------------- the catalog
crisis_patterns == <<
    [ keywords |-> << "suicide", "kill myself", "end my life", "want to die",
                      "better off dead", "not worth living", "take my own life",
                      "end it all", "don't want to be here", "world without me" >>,
      risk_factor |-> "SUICIDAL_IDEATION",
      severity_weight |-> FP,
      requires_immediate_action |-> TRUE,
      context_modifiers |-> << "plan", "method", "when", "how", "tonight", "today" >> ],
    [ keywords |-> << "hurt myself", "cut myself", "self harm", "self-harm",
                      "cutting", "burning", "hitting myself", "punish myself",
                      "deserve pain", "make it stop" >>,
      risk_factor |-> "SELF_HARM",
      severity_weight |-> (9 * FP) \div 10,
      requires_immediate_action |-> TRUE,
      context_modifiers |-> << >> ],
    [ keywords |-> << "hopeless", "no point", "pointless", "give up", "can't go on",
                      "no future", "nothing matters", "why bother", "no way out",
                      "trapped", "stuck forever" >>,
      risk_factor |-> "HOPELESSNESS",
      severity_weight |-> (8 * FP) \div 10,
      requires_immediate_action |-> FALSE,
      context_modifiers |-> << "always", "never", "forever", "everyone", "nothing" >> ],
    [ keywords |-> << "want to disappear", "invisible", "burden to everyone",
                      "everyone hates me", "worthless", "useless", "failure",
                      "can't do anything right", "ruined everything" >>,
      risk_factor |-> "DEPRESSION",
      severity_weight |-> (7 * FP) \div 10,
      requires_immediate_action |-> FALSE,
      context_modifiers |-> << >> ],
    [ keywords |-> << "drinking too much", "can't stop drinking", "need drugs",
                      "overdose", "too many pills", "using again", "relapsed",
                      "out of control", "addiction" >>,
      risk_factor |-> "SUBSTANCE_ABUSE",
      severity_weight |-> (6 * FP) \div 10,
      requires_immediate_action |-> FALSE,
      context_modifiers |-> << >> ],
    [ keywords |-> << "nobody cares", "all alone", "no friends", "isolated",
                      "pushing everyone away", "can't talk to anyone",
                      "no one understands", "abandoned" >>,
      risk_factor |-> "ISOLATION",
      severity_weight |-> (5 * FP) \div 10,
      requires_immediate_action |-> FALSE,
      context_modifiers |-> << >> ],
    [ keywords |-> << "flashbacks", "nightmares", "can't forget", "reliving",
                      "traumatized", "ptsd", "triggered", "memories won't stop" >>,
      risk_factor |-> "TRAUMA",
      severity_weight |-> (6 * FP) \div 10,
      requires_immediate_action |-> FALSE,
      context_modifiers |-> << >> ] >>

\* the members of the RiskFactor enum
RiskFactor == { "SUICIDAL_IDEATION", "SELF_HARM", "SUBSTANCE_ABUSE", "ISOLATION",
                "HOPELESSNESS", "DEPRESSION", "ANXIETY", "TRAUMA",
                "RELATIONSHIP_ISSUES", "FINANCIAL_STRESS" }

\* the values of the CrisisLevel enum
CrisisLevel == { "none", "low", "medium", "high", "critical" }

negation_patterns == << "not", "don't", "won't", "never", "wouldn't" >>

clear_indicators == << "i want to", "i am going to", "i plan to", "i will" >>

\* --------------------------------------------------------- pattern scoring
\* number of entries of list that occur in content
RECURSIVE CountIn(_, _, _)
CountIn(content, list, j) ==
    IF j > Len(list) THEN 0
    ELSE (IF Contains(content, list[j]) THEN 1 ELSE 0) + CountIn(content, list, j + 1)

keyword_matches(content, pattern) == CountIn(content, pattern.keywords, 1)

\* context_bonus: 0.1 per context modifier present
context_bonus(content, pattern) ==
    CountIn(content, pattern.context_modifiers, 1) * (FP \div 10)

negation_found(content) == ContainsAny(content, negation_patterns)

\* a negation check that leaves the score as it is
Dampen_none(score, content) == score

\* a negation check that cancels the match
Dampen_cancel(score, content) ==
    IF negation_found(content) THEN 0 ELSE score

\* score *= 0.7 when a negation term occurs
Dampen(score, content) ==
    IF negation_found(content) THEN (score * 7) \div 10 ELSE score

\* _evaluate_pattern without the early return for no keyword match
_evaluate_pattern_no_return(content, pattern) ==
    LET k    == keyword_matches(content, pattern)
        w    == pattern.severity_weight
        base == k * ((w * 3) \div 10)
        multi == IF k > 1 THEN (w * 2) \div 10 ELSE 0
        ctx  == Min(context_bonus(content, pattern), (w * 3) \div 10)
    IN  Min(Dampen(base + multi + ctx, content), FP)

\* _evaluate_pattern scoring the presence of a keyword, not the number matched
_evaluate_pattern_flat(content, pattern) ==
    LET k    == keyword_matches(content, pattern)
        w    == pattern.severity_weight
        base == (w * 3) \div 10
        ctx  == Min(context_bonus(content, pattern), (w * 3) \div 10)
    IN  IF k = 0 THEN 0
        ELSE Min(Dampen(base + ctx, content), FP)

_evaluate_pattern(content, pattern) ==
    LET k    == keyword_matches(content, pattern)
        w    == pattern.severity_weight
        base == k * ((w * 3) \div 10)
        multi == IF k > 1 THEN (w * 2) \div 10 ELSE 0
        ctx  == Min(context_bonus(content, pattern), (w * 3) \div 10)
    IN  IF k = 0 THEN 0
        ELSE Min(Dampen(base + multi + ctx, content), FP)

\* ------------------------------------------------------ level and confidence
\* `x in list`
In(x, list) == \E i \in 1..Len(list) : list[i] = x

\* _determine_crisis_level with CRITICAL decided by the score alone
_determine_crisis_level_by_score(risk_score, detected_factors) ==
    IF risk_score > (8 * FP) \div 10
    THEN "critical"
    ELSE IF \/ risk_score > (7 * FP) \div 10
            \/ In("SUICIDAL_IDEATION", detected_factors)
            \/ In("SELF_HARM", detected_factors)
            \/ (In("HOPELESSNESS", detected_factors) /\ risk_score > (6 * FP) \div 10)
    THEN "high"
    ELSE IF \/ risk_score > (4 * FP) \div 10
            \/ Len(detected_factors) >= 2
            \/ In("HOPELESSNESS", detected_factors)
    THEN "medium"
    ELSE IF risk_score > (2 * FP) \div 10 \/ Len(detected_factors) >= 1
    THEN "low"
    ELSE "none"

\* _determine_crisis_level reaching LOW by the score alone
_determine_crisis_level_low_by_score(risk_score, detected_factors) ==
    IF In("SUICIDAL_IDEATION", detected_factors) /\ risk_score > (8 * FP) \div 10
    THEN "critical"
    ELSE IF \/ risk_score > (7 * FP) \div 10
            \/ In("SUICIDAL_IDEATION", detected_factors)
            \/ In("SELF_HARM", detected_factors)
            \/ (In("HOPELESSNESS", detected_factors) /\ risk_score > (6 * FP) \div 10)
    THEN "high"
    ELSE IF \/ risk_score > (4 * FP) \div 10
            \/ Len(detected_factors) >= 2
            \/ In("HOPELESSNESS", detected_factors)
    THEN "medium"
    ELSE IF risk_score > (2 * FP) \div 10
    THEN "low"
    ELSE "none"

_determine_crisis_level(risk_score, detected_factors) ==
    IF In("SUICIDAL_IDEATION", detected_factors) /\ risk_score > (8 * FP) \div 10
    THEN "critical"
    ELSE IF \/ risk_score > (7 * FP) \div 10
            \/ In("SUICIDAL_IDEATION", detected_factors)
            \/ In("SELF_HARM", detected_factors)
            \/ (In("HOPELESSNESS", detected_factors) /\ risk_score > (6 * FP) \div 10)
    THEN "high"
    ELSE IF \/ risk_score > (4 * FP) \div 10
            \/ Len(detected_factors) >= 2
            \/ In("HOPELESSNESS", detected_factors)
    THEN "medium"
    ELSE IF risk_score > (2 * FP) \div 10 \/ Len(detected_factors) >= 1
    THEN "low"
    ELSE "none"

\* _calculate_confidence without the final min(confidence, 1.0)
_calculate_confidence_unclamped(content, detected_factors, risk_score) ==
    LET base    == (5 * FP) \div 10
        len50   == IF Len(strip(content)) > 50 THEN FP \div 10 ELSE 0
        len100  == IF Len(strip(content)) > 100 THEN FP \div 10 ELSE 0
        factors == Min((Len(detected_factors) * 15 * FP) \div 100, (3 * FP) \div 10)
        score   == (risk_score * 2) \div 10
        clear   == IF ContainsAny(lower(content), clear_indicators)
                   THEN (2 * FP) \div 10 ELSE 0
    IN  base + len50 + len100 + factors + score + clear

_calculate_confidence(content, detected_factors, risk_score) ==
    LET base    == (5 * FP) \div 10
        len50   == IF Len(strip(content)) > 50 THEN FP \div 10 ELSE 0
        len100  == IF Len(strip(content)) > 100 THEN FP \div 10 ELSE 0
        factors == Min((Len(detected_factors) * 15 * FP) \div 100, (3 * FP) \div 10)
        score   == (risk_score * 2) \div 10
        clear   == IF ContainsAny(lower(content), clear_indicators)
                   THEN (2 * FP) \div 10 ELSE 0
    IN  Min(base + len50 + len100 + factors + score + clear, FP)

\* ------------------------------------------------------------ interventions
CriticalInterventions == <<
    "Immediate professional intervention required",
    "Contact emergency services (911) if in immediate danger",
    "Call 988 Suicide & Crisis Lifeline immediately",
    "Do not leave person alone",
    "Remove any means of self-harm" >>

HighInterventions == <<
    "Contact crisis support immediately: 988",
    "Reach out to a trusted person",
    "Consider emergency room if feeling unsafe",
    "Remove access to means of harm",
    "Create safety plan" >>

MediumInterventions == <<
    "Connect with mental health professional",
    "Use crisis text line: Text HOME to 741741",
    "Practice grounding techniques",
    "Reach out to support network",
    "Schedule therapy appointment" >>

LowInterventions == <<
    "Monitor mood closely",
    "Practice self-care activities",
    "Consider counseling",
    "Use stress reduction techniques",
    "Stay connected with others" >>

\* _generate_interventions without the final [:5]
_generate_interventions_unlimited(crisis_level, detected_factors) ==
    LET base == CASE crisis_level = "critical" -> CriticalInterventions
                  [] crisis_level = "high"     -> HighInterventions
                  [] crisis_level = "medium"   -> MediumInterventions
                  [] crisis_level = "low"      -> LowInterventions
                  [] OTHER                     -> << >>
        iso  == IF In("ISOLATION", detected_factors)
                THEN << "Focus on social connection and support" >> ELSE << >>
        sub  == IF In("SUBSTANCE_ABUSE", detected_factors)
                THEN << "Consider addiction treatment resources" >> ELSE << >>
        tra  == IF In("TRAUMA", detected_factors)
                THEN << "Seek trauma-informed therapy" >> ELSE << >>
    IN  base \o iso \o sub \o tra

\* _generate_interventions putting the factor-specific entries first
_generate_interventions_factors_first(crisis_level, detected_factors) ==
    LET base == CASE crisis_level = "critical" -> CriticalInterventions
                  [] crisis_level = "high"     -> HighInterventions
                  [] crisis_level = "medium"   -> MediumInterventions
                  [] crisis_level = "low"      -> LowInterventions
                  [] OTHER                     -> << >>
        iso  == IF In("ISOLATION", detected_factors)
                THEN << "Focus on social connection and support" >> ELSE << >>
        sub  == IF In("SUBSTANCE_ABUSE", detected_factors)
                THEN << "Consider addiction treatment resources" >> ELSE << >>
        tra  == IF In("TRAUMA", detected_factors)
                THEN << "Seek trauma-informed therapy" >> ELSE << >>
    IN  Take(iso \o sub \o tra \o base, 5)

_generate_interventions(crisis_level, detected_factors) ==
    LET base == CASE crisis_level = "critical" -> CriticalInterventions
                  [] crisis_level = "high"     -> HighInterventions
                  [] crisis_level = "medium"   -> MediumInterventions
                  [] crisis_level = "low"      -> LowInterventions
                  [] OTHER                     -> << >>
        iso  == IF In("ISOLATION", detected_factors)
                THEN << "Focus on social connection and support" >> ELSE << >>
        sub  == IF In("SUBSTANCE_ABUSE", detected_factors)
                THEN << "Consider addiction treatment resources" >> ELSE << >>
        tra  == IF In("TRAUMA", detected_factors)
                THEN << "Seek trauma-informed therapy" >> ELSE << >>
    IN  Take(base \o iso \o sub \o tra, 5)

\* ---------------------------------------------------------- safety resources
SafetyResource(name, type, contact, availability, description, country_code, is_emergency) ==
    [ name |-> name, type |-> type, contact |-> contact, availability |-> availability,
      description |-> description, country_code |-> country_code, language |-> "en",
      is_emergency |-> is_emergency ]

safety_resources == <<
    SafetyResource("988 Suicide & Crisis Lifeline", "hotline", "988", "24/7",
                   "Free, confidential crisis counseling", "US", TRUE),
    SafetyResource("Crisis Text Line", "text", "Text HOME to 741741", "24/7",
                   "Crisis counseling via text", "US", TRUE),
    SafetyResource("Samaritans", "hotline", "116 123", "24/7",
                   "Free support for emotional distress", "UK", TRUE),
    SafetyResource("Psychology Today Therapist Finder", "website",
                   "https://www.psychologytoday.com/us/therapists", "24/7 online",
                   "Find mental health professionals near you", "US", FALSE),
    SafetyResource("BetterHelp Online Therapy", "website", "https://www.betterhelp.com",
                   "24/7 online", "Professional online counseling", "US", FALSE),
    SafetyResource("National Suicide Prevention Lifeline", "website",
                   "https://suicidepreventionlifeline.org", "24/7 online",
                   "Resources and support information", "US", FALSE),
    SafetyResource("Mind (UK)", "website", "https://www.mind.org.uk", "24/7 online",
                   "Mental health information and support", "UK", FALSE),
    SafetyResource("MY3 Support Network App", "app", "Download from app store",
                   "Always available", "Create personal safety plan", "US", FALSE),
    SafetyResource("Safety Plan App", "app", "Download from app store",
                   "Always available", "Evidence-based safety planning", "US", FALSE) >>

\* [x for x in list if Keep(x)]
RECURSIVE FilterFrom(_, _, _)
FilterFrom(list, emergency, i) ==
    IF i > Len(list) THEN << >>
    ELSE (IF list[i].is_emergency = emergency THEN << list[i] >> ELSE << >>)
         \o FilterFrom(list, emergency, i + 1)

\* the dict handed out for one catalog resource
ResourceDict(r) ==
    [ name |-> r.name, type |-> r.type, contact |-> r.contact,
      description |-> r.description, availability |-> r.availability ]

ResourceDicts(list) == [ i \in 1..Len(list) |-> ResourceDict(list[i]) ]

\* _get_relevant_resources handing out the emergency resources at every level
_get_relevant_resources_all_levels(crisis_level, detected_factors) ==
    LET emergency == ResourceDicts(Take(FilterFrom(safety_resources, TRUE, 1), 3))
        general   == ResourceDicts(Take(FilterFrom(safety_resources, FALSE, 1), 2))
    IN  emergency \o general

\* _get_relevant_resources putting the general resources first
_get_relevant_resources_general_first(crisis_level, detected_factors) ==
    LET emergency == IF crisis_level # "none" /\ crisis_level # "low"
                     THEN ResourceDicts(Take(FilterFrom(safety_resources, TRUE, 1), 3))
                     ELSE << >>
        general   == ResourceDicts(Take(FilterFrom(safety_resources, FALSE, 1), 2))
    IN  general \o emergency

_get_relevant_resources(crisis_level, detected_factors) ==
    LET emergency == IF crisis_level # "none" /\ crisis_level # "low"
                     THEN ResourceDicts(Take(FilterFrom(safety_resources, TRUE, 1), 3))
                     ELSE << >>
        general   == ResourceDicts(Take(FilterFrom(safety_resources, FALSE, 1), 2))
    IN  emergency \o general

\* --------------------------------------------------------------- assessment
_create_safe_default_assessment(user_id, content) ==
    [ user_id |-> user_id,
      trigger_content |-> content,
      crisis_level |-> "none",
      risk_score |-> 0,
      detected_factors |-> << >>,
      confidence |-> 0,
      immediate_action_required |-> FALSE,
      recommended_interventions |-> << "Contact support if you need help" >>,
      safety_resources |-> << [ name |-> "988 Suicide & Crisis Lifeline",
                                type |-> "hotline",
                                contact |-> "988",
                                description |-> "24/7 crisis support",
                                availability |-> "24/7" ] >>,
      escalation_needed |-> FALSE ]

\* a loop body that asks for immediate action on every match of such a pattern
PatternStep_any_match(acc, pattern, pattern_score) ==
    IF pattern_score > 0
    THEN [ detected_factors |-> Append(acc.detected_factors, pattern.risk_factor),
           risk_score |-> acc.risk_score + pattern_score,
           immediate_action |->
               \/ acc.immediate_action
               \/ pattern.requires_immediate_action ]
    ELSE acc

\* the body of the pattern loop of assess_crisis_risk for one pattern
PatternStep(acc, pattern, pattern_score) ==
    IF pattern_score > 0
    THEN [ detected_factors |-> Append(acc.detected_factors, pattern.risk_factor),
           risk_score |-> acc.risk_score + pattern_score,
           immediate_action |->
               \/ acc.immediate_action
               \/ (pattern.requires_immediate_action
                   /\ pattern_score > (7 * FP) \div 10) ]
    ELSE acc

\* the pattern loop of assess_crisis_risk, from catalog index i on
RECURSIVE PatternLoop(_, _, _)
PatternLoop(content_lower, i, acc) ==
    IF i > Len(crisis_patterns) THEN acc
    ELSE PatternLoop(content_lower, i + 1,
            PatternStep(acc, crisis_patterns[i],
                        _evaluate_pattern(content_lower, crisis_patterns[i])))

\* escalation_needed with the score threshold at 0.5
EscalationNeeded_half(crisis_level, immediate_action, risk_score) ==
    \/ crisis_level \in { "high", "critical" }
    \/ immediate_action
    \/ risk_score > (5 * FP) \div 10

\* escalation_needed of assess_crisis_risk
EscalationNeeded(crisis_level, immediate_action, risk_score) ==
    \/ crisis_level \in { "high", "critical" }
    \/ immediate_action
    \/ risk_score > (8 * FP) \div 10

\* what assess_crisis_risk derives from the clamped score and the factors
AssessScored(content, detected_factors, risk_score, immediate_action) ==
    LET crisis_level == _determine_crisis_level(risk_score, detected_factors)
    IN  [ crisis_level |-> crisis_level,
          risk_score |-> risk_score,
          detected_factors |-> detected_factors,
          confidence |-> _calculate_confidence(content, detected_factors, risk_score),
          immediate_action_required |-> immediate_action,
          recommended_interventions |->
              _generate_interventions(crisis_level, detected_factors),
          safety_resources |-> _get_relevant_resources(crisis_level, detected_factors),
          escalation_needed |->
              EscalationNeeded(crisis_level, immediate_action, risk_score) ]

\* risk_score = min(risk_score, 1.0) after the loop, then the rest
AssessLoop(content, loop) ==
    AssessScored(content, loop.detected_factors, Min(loop.risk_score, FP),
                 loop.immediate_action)

\* what the try block of assess_crisis_risk computes from the text
AnalyseContent(content) ==
    AssessLoop(content,
               PatternLoop(lower(content), 1,
                           [ detected_factors |-> << >>, risk_score |-> 0,
                             immediate_action |-> FALSE ]))

\* -------------------------------------------------------------------- texts
\* pieces of text the content strings are made of
Fragments == <<
    "I have a plan to end my life",
    "tonight",
    "I want to kill myself tonight",
    "I hurt myself",
    "I don't want to be here",
    "I cut myself",
    "I want to hurt myself and kill myself tonight, I want to die and I know how",
    "nothing matters",
    "I feel completely hopeless",
    "I feel worthless and useless",
    "I feel so alone and isolated",
    "I can't stop drinking",
    "I would never",
    "The weather is nice today" >>

RECURSIVE JoinFrom(_, _)
\* " ".join of the fragments picked by idx, from position i on
JoinFrom(idx, i) ==
    IF i > Len(idx) THEN ""
    ELSE (IF i > 1 THEN " " ELSE "") \o Fragments[idx[i]] \o JoinFrom(idx, i + 1)

\* every text of at most MaxFrags fragments
Contents ==
    { JoinFrom(idx, 1) :
        idx \in UNION { [ 1..n -> 1..Len(Fragments) ] : n \in 0..MaxFrags } }

\* AnalyseContent of every text, computed once
AnalysisTable == [ c \in Contents |-> AnalyseContent(c) ]

\* AnalyseContent of a text, from the table where the table has it
Analysis(content) ==
    IF content \in Contents THEN AnalysisTable[content] ELSE AnalyseContent(content)

\* RiskAssessment(user_id=..., trigger_content=..., ...) of the analysis a
RiskAssessment(user_id, content, a) ==
    [ user_id |-> user_id,
      trigger_content |-> Str(content),
      crisis_level |-> a.crisis_level,
      risk_score |-> a.risk_score,
      detected_factors |-> a.detected_factors,
      confidence |-> a.confidence,
      immediate_action_required |-> a.immediate_action_required,
      recommended_interventions |-> a.recommended_interventions,
      safety_resources |-> a.safety_resources,
      escalation_needed |-> a.escalation_needed ]

\* the RiskAssessment assess_crisis_risk builds in its try block (content a str)
ComputeAssessment(user_id, content) ==
    RiskAssessment(user_id, content, Analysis(content))

\* ------------------------------------------------------- int() and json
Digits == "0123456789"

IsDigit(c) == \E i \in 1..Len(Digits) : SubSeq(Digits, i, i) = c

DigitValue(c) == (CHOOSE i \in 1..Len(Digits) : SubSeq(Digits, i, i) = c) - 1

RECURSIVE DigitsValue(_, _)
\* value of the first n characters of the digit string s
DigitsValue(s, n) ==
    IF n = 0 THEN 0 ELSE 10 * DigitsValue(s, n - 1) + DigitValue(SubSeq(s, n, n))

\* int(s): [ok |-> FALSE] stands for ValueError
int(s) ==
    LET t      == strip(s)
        signed == Len(t) > 0 /\ SubSeq(t, 1, 1) \in { "+", "-" }
        d      == IF signed THEN SubSeq(t, 2, Len(t)) ELSE t
    IN  IF Len(d) > 0 /\ \A i \in 1..Len(d) : IsDigit(SubSeq(d, i, i))
        THEN [ ok |-> TRUE,
               v  |-> IF signed /\ SubSeq(t, 1, 1) = "-"
                      THEN 0 - DigitsValue(d, Len(d)) ELSE DigitsValue(d, Len(d)) ]
        ELSE [ ok |-> FALSE ]

Quote == "\""
Backslash == "\\"

RECURSIVE JsonEscapeFrom(_, _)
JsonEscapeFrom(s, i) ==
    IF i > Len(s) THEN ""
    ELSE LET c == SubSeq(s, i, i)
         IN  (IF c = Quote \/ c = Backslash THEN Backslash \o c ELSE c)
             \o JsonEscapeFrom(s, i + 1)

RECURSIVE JsonItemsFrom(_, _)
JsonItemsFrom(list, i) ==
    IF i > Len(list) THEN ""
    ELSE (IF i > 1 THEN ", " ELSE "")
         \o Quote \o JsonEscapeFrom(list[i], 1) \o Quote
         \o JsonItemsFrom(list, i + 1)

\* the text json.dumps makes of a list of str
JsonEncode(list) == "[" \o JsonItemsFrom(list, 1) \o "]"

RECURSIVE JsonScanString(_, _, _)
\* scans the body of a JSON string of text from position i;
\* the result is the decoded string and the position after the closing quote
JsonScanString(text, i, acc) ==
    IF i > Len(text) THEN [ ok |-> FALSE ]
    ELSE LET c == SubSeq(text, i, i)
         IN  IF c = Quote THEN [ ok |-> TRUE, s |-> acc, next |-> i + 1 ]
             ELSE IF c = Backslash
             THEN IF i + 1 > Len(text) THEN [ ok |-> FALSE ]
                  ELSE JsonScanString(text, i + 2, acc \o SubSeq(text, i + 1, i + 1))
             ELSE JsonScanString(text, i + 1, acc \o c)

\* text[a-1:b] (Python slices never fail)
Slice(text, a, b) ==
    IF a > Len(text) \/ a > b THEN "" ELSE SubSeq(text, a, Min(b, Len(text)))

RECURSIVE JsonScanItems(_, _, _)
\* scans the items of a JSON list of text from position i (after "[" or ", ")
JsonScanItems(text, i, acc) ==
    IF i > Len(text) \/ SubSeq(text, i, i) # Quote THEN [ ok |-> FALSE ]
    ELSE LET item == JsonScanString(text, i + 1, "")
         IN  IF ~item.ok THEN [ ok |-> FALSE ]
             ELSE IF Slice(text, item.next, Len(text)) = "]"
             THEN [ ok |-> TRUE, v |-> Append(acc, item.s) ]
             ELSE IF Slice(text, item.next, item.next + 1) = ", "
             THEN JsonScanItems(text, item.next + 2, Append(acc, item.s))
             ELSE [ ok |-> FALSE ]

\* the list json.loads makes of a text: [ok |-> FALSE] stands for an exception
JsonDecode(text) ==
    IF text = "[]" THEN [ ok |-> TRUE, v |-> << >> ]
    ELSE IF Len(text) > 0 /\ SubSeq(text, 1, 1) = "["
    THEN JsonScanItems(text, 2, << >>)
    ELSE [ ok |-> FALSE ]

\* ------------------------------------------------- escalation action lists
CriticalActions == <<
    "Crisis team notified immediately",
    "Emergency contact attempted",
    "Professional intervention initiated",
    "User flagged for immediate follow-up" >>

CriticalNextSteps == <<
    "Emergency services may be contacted",
    "Immediate professional assessment scheduled",
    "Family/emergency contacts will be notified" >>

HighActions == <<
    "Mental health professional notified",
    "Crisis counselor assigned",
    "Enhanced monitoring activated" >>

HighNextSteps == <<
    "Professional will contact within 2 hours",
    "Safety plan development scheduled",
    "Follow-up appointment arranged" >>

\* the content values of the calls against a growing table
StoreContents ==
    { None,
      Str(""),
      Str("I feel so alone and isolated"),
      Str("I have a plan to end my life tonight") }

\* the notes of the update_intervention_status requests
Notes == { "talked to \"Sam\"" }

\* the entry update_intervention_status appends for the notes of a request
NoteEntry(notes) == "User update: " \o notes

\* the text assessed in the sequences that mix in status updates and requests
LifecycleContents == { Str("I have a plan to end my life tonight") }

\* the intervention logs that grow from logs by at most n appends of a list of
\* appends
RECURSIVE LogsAfter(_, _, _)
LogsAfter(logs, appends, n) ==
    IF n = 0 THEN logs
    ELSE LogsAfter(logs \cup { l \o a : l \in logs, a \in appends }, appends, n - 1)

\* the logs of the events of StoreContents after at most MaxEscalations
\* escalations
EscalationLogs ==
    LogsAfter({ AnalysisTable[c.v].recommended_interventions :
                   c \in StoreContents \ { None } },
              { CriticalActions, HighActions }, MaxEscalations)

\* the logs of the events of LifecycleContents after at most MaxEscalations HIGH
\* escalations and MaxUpdates status updates
LifecycleLogs ==
    LogsAfter({ AnalysisTable[c.v].recommended_interventions : c \in LifecycleContents },
              { HighActions } \cup { << NoteEntry(t) >> : t \in Notes },
              MaxEscalations + MaxUpdates)

\* JsonEncode of these logs and of the interventions of every text, and
\* JsonDecode of their texts, computed once
EncodeTable ==
    [ l \in EscalationLogs \cup LifecycleLogs
              \cup { AnalysisTable[c].recommended_interventions : c \in Contents }
        |-> JsonEncode(l) ]

DecodeTable ==
    [ t \in { EncodeTable[l] : l \in DOMAIN EncodeTable } |-> JsonDecode(t) ]

\* json.dumps of a list of str
json_dumps(list) ==
    IF list \in DOMAIN EncodeTable THEN EncodeTable[list] ELSE JsonEncode(list)

\* json.loads of a text
json_loads(text) ==
    IF text \in DOMAIN DecodeTable THEN DecodeTable[text] ELSE JsonDecode(text)

\* ------------------------------------------------------------- event store
\* The crisis_events table, in insertion order.  db tells whether the store
\* answers ("ok") or every query and commit raises ("down"); rollback of
\* the session discards the pending changes and does not raise.
VARIABLES events, last, escalations, updates, mock_conversations, mock_messages, active_conversations, clock

vars == << events, last, escalations, updates,
          mock_conversations, mock_messages, active_conversations, clock >>

\* the conversation store of the routes, the coordinator's conversations and the
\* clock of both
conversationVars == << mock_conversations, mock_messages, active_conversations, clock >>

\* a dict with no key
EmptyDict == [ k \in {} |-> None ]

\* the module-level dicts and the coordinator after construction
NoConversations ==
    /\ mock_conversations = EmptyDict
    /\ mock_messages = EmptyDict
    /\ active_conversations = << >>
    /\ clock = 0

\* the row CrisisEvent(...) of _store_crisis_event, as inserted into table
CrisisEvent(table, uid, assessment, trigger_source) ==
    [ id |-> Len(table) + 1,
      user_id |-> uid,
      trigger_source |-> trigger_source,
      crisis_level |-> assessment.crisis_level,
      trigger_content |-> assessment.trigger_content,
      ai_confidence |-> assessment.confidence,
      intervention_taken |-> json_dumps(assessment.recommended_interventions),
      professional_notified |-> assessment.escalation_needed,
      user_response |-> None,
      resolved_at |-> None,
      created_at |-> Len(table) + 1 ]

\* _store_crisis_event keeping the added row when the commit fails
_store_crisis_event_no_rollback(table, assessment, trigger_source, db) ==
    LET uid == int(assessment.user_id)
    IN  IF ~uid.ok THEN table
        ELSE Append(table, CrisisEvent(table, uid.v, assessment, trigger_source))

\* the table after _store_crisis_event
_store_crisis_event(table, assessment, trigger_source, db) ==
    LET uid == int(assessment.user_id)
    IN  IF ~uid.ok THEN table                      \* ValueError: rollback
        ELSE IF db # "ok" THEN table               \* commit raises: rollback
        ELSE Append(table, CrisisEvent(table, uid.v, assessment, trigger_source))

\* an except clause that raises the exception again
AssessExcept_reraise(user_id, content, table) ==
    [ raised |-> TRUE, ret |-> None, events |-> table ]

\* what the except clause of assess_crisis_risk does with an exception
AssessExcept(user_id, content, table) ==
    [ raised |-> FALSE,
      ret |-> _create_safe_default_assessment(user_id, content),
      events |-> table ]

\* the end of the try block storing an event at every level
AssessTry_store_always(table, assessment, trigger_source, db) ==
    [ raised |-> FALSE,
      ret |-> assessment,
      events |-> _store_crisis_event(table, assessment, trigger_source, db) ]

\* a try block that reports full confidence for a user who already has an event
AssessTry_prior_events(table, assessment, trigger_source, db) ==
    [ raised |-> FALSE,
      ret |-> IF \E i \in 1..Len(table) :
                     /\ int(assessment.user_id).ok
                     /\ table[i].user_id = int(assessment.user_id).v
              THEN [ assessment EXCEPT !.confidence = FP ]
              ELSE assessment,
      events |-> IF assessment.crisis_level # "none"
                 THEN _store_crisis_event(table, assessment, trigger_source, db)
                 ELSE table ]

\* the end of the try block of assess_crisis_risk: store and return
AssessTry(table, assessment, trigger_source, db) ==
    [ raised |-> FALSE,
      ret |-> assessment,
      events |-> IF assessment.crisis_level # "none"
                 THEN _store_crisis_event(table, assessment, trigger_source, db)
                 ELSE table ]

\* assess_crisis_risk: whether it raised, what it returned, the table after it
assess_crisis_risk(table, user_id, content, trigger_source, db) ==
    IF content.type # "str"
    THEN \* content.lower() raises AttributeError
         AssessExcept(user_id, content, table)
    ELSE AssessTry(table, ComputeAssessment(user_id, content.v), trigger_source, db)

\* --------------------------------------------------------------- escalation
\* an escalation_result that treats every level below CRITICAL as HIGH
EscalationResult_default_high(crisis_level, escalation_type) ==
    [ escalated |-> TRUE,
      escalation_type |-> escalation_type,
      actions_taken |-> CASE crisis_level = "critical" -> CriticalActions
                          [] OTHER                     -> HighActions,
      next_steps |-> CASE crisis_level = "critical" -> CriticalNextSteps
                       [] OTHER                     -> HighNextSteps ]

\* the escalation_result escalate_crisis builds
EscalationResult(crisis_level, escalation_type) ==
    [ escalated |-> TRUE,
      escalation_type |-> escalation_type,
      actions_taken |-> CASE crisis_level = "critical" -> CriticalActions
                          [] crisis_level = "high"     -> HighActions
                          [] OTHER                     -> << >>,
      next_steps |-> CASE crisis_level = "critical" -> CriticalNextSteps
                       [] crisis_level = "high"     -> HighNextSteps
                       [] OTHER                     -> << >> ]

\* rows of table whose user_id is uid
UserRows(table, uid) == { i \in 1..Len(table) : table[i].user_id = uid }

\* the first row of the user in ascending order of created_at
RecentEvent_oldest(table, uid) ==
    IF UserRows(table, uid) = {} THEN 0
    ELSE CHOOSE i \in UserRows(table, uid) :
            \A j \in UserRows(table, uid) : table[i].created_at <= table[j].created_at

\* filter_by(user_id=uid).order_by(created_at.desc()).first(): 0 stands for None
RecentEvent(table, uid) ==
    IF UserRows(table, uid) = {} THEN 0
    ELSE CHOOSE i \in UserRows(table, uid) :
            \A j \in UserRows(table, uid) : table[j].created_at <= table[i].created_at

\* the update also closing the event
AppendEscalation_resolves(table, r, interventions, escalation_result) ==
    IF ~interventions.ok THEN table
    ELSE [ table EXCEPT
             ![r].professional_notified = TRUE,
             ![r].resolved_at = [ type |-> "datetime", v |-> table[r].created_at ],
             ![r].intervention_taken =
                 json_dumps(interventions.v \o escalation_result.actions_taken) ]

\* the table after the escalation actions are appended to the log of row r
AppendEscalation(table, r, interventions, escalation_result) ==
    IF ~interventions.ok THEN table                \* json.loads raises: rollback
    ELSE [ table EXCEPT
             ![r].professional_notified = TRUE,
             ![r].intervention_taken =
                 json_dumps(interventions.v \o escalation_result.actions_taken) ]

\* `if recent_event:` and its body, r the row found (0 for None)
UpdateRecent(table, r, escalation_result) ==
    IF r = 0 THEN table
    ELSE AppendEscalation(table, r,
            json_loads(IF table[r].intervention_taken = ""
                       THEN "[]" ELSE table[r].intervention_taken),
            escalation_result)

\* the table after _update_crisis_event_escalation
_update_crisis_event_escalation(table, user_id, escalation_result, db) ==
    LET uid == int(user_id)
    IN  IF ~uid.ok \/ db # "ok" THEN table         \* exception: rollback
        ELSE UpdateRecent(table, RecentEvent(table, uid.v), escalation_result)

\* escalate_crisis reporting a failure when the event update fails
escalate_crisis_fail_on_update(table, assessment, escalation_type, db) ==
    IF db # "ok" \/ ~int(assessment.user_id).ok
    THEN [ ret |-> [ escalated |-> FALSE, error |-> "update failed" ], events |-> table ]
    ELSE [ ret |-> EscalationResult(assessment.crisis_level, escalation_type),
           events |-> _update_crisis_event_escalation(table, assessment.user_id,
                          EscalationResult(assessment.crisis_level, escalation_type), db) ]

\* escalate_crisis: what it returned and the table after it
escalate_crisis(table, assessment, escalation_type, db) ==
    LET escalation_result == EscalationResult(assessment.crisis_level, escalation_type)
    IN  [ ret |-> escalation_result,
          events |-> _update_crisis_event_escalation(table, assessment.user_id,
                                                     escalation_result, db) ]

\* the RiskAssessment the /escalate route hands to escalate_crisis
EscalationAssessment(user_id, trigger_content, crisis_level) ==
    [ user_id |-> user_id,
      trigger_content |-> trigger_content,
      crisis_level |-> crisis_level,
      risk_score |-> IF crisis_level = "high" THEN (8 * FP) \div 10 ELSE (9 * FP) \div 10,
      detected_factors |-> << >>,
      confidence |-> (9 * FP) \div 10,
      immediate_action_required |-> TRUE,
      recommended_interventions |-> << >>,
      safety_resources |-> << >>,
      escalation_needed |-> TRUE ]

\* ------------------------------------------------------------ POST /escalate
\* the JSON object of the request: keys are the keys present in it; crisis_level
\* is a str or null
EscalateDict(keys, crisis_level, user_consent) ==
    [ keys |-> keys, crisis_level |-> crisis_level, user_consent |-> user_consent,
      trigger_content |-> "", escalation_type |-> "professional" ]

\* data.get(key, default)
Get(data, key, default) == IF key \in data.keys THEN data[key] ELSE default

\* what the route answers: the status code and message, whether escalate_crisis
\* was called, the escalation_result, and the table after the request
RouteAnswer(status, message, performed, ret, table) ==
    [ status |-> status, message |-> message, performed |-> performed, ret |-> ret,
      events |-> table ]

\* the answer after the call r of escalate_crisis
EscalatePerform(r) ==
    RouteAnswer(200, "Crisis escalation initiated successfully", TRUE, r.ret, r.events)

\* a route that escalates without asking for consent
EscalateChecked_no_consent(table, user_id, crisis_level_str, crisis_level, user_consent, trigger_content, escalation_type, db) ==
    IF crisis_level \notin CrisisLevel
    THEN RouteAnswer(400, "Invalid crisis level: " \o crisis_level_str, FALSE, None, table)
    ELSE EscalatePerform(escalate_crisis(table,
                             EscalationAssessment(user_id, trigger_content, crisis_level),
                             escalation_type, db))

\* the route from CrisisLevel(crisis_level_str.lower()) on; crisis_level is the
\* lower-cased string
EscalateChecked(table, user_id, crisis_level_str, crisis_level, user_consent, trigger_content, escalation_type, db) ==
    IF crisis_level \notin CrisisLevel
    THEN \* ValueError
         RouteAnswer(400, "Invalid crisis level: " \o crisis_level_str, FALSE, None, table)
    ELSE IF crisis_level # "critical" /\ ~user_consent
    THEN RouteAnswer(400, "User consent required for escalation", FALSE, None, table)
    ELSE EscalatePerform(escalate_crisis(table,
                             EscalationAssessment(user_id, trigger_content, crisis_level),
                             escalation_type, db))

\* the route after the four data.get calls
EscalateValidate(table, user_id, crisis_level_str, user_consent, trigger_content, escalation_type, db) ==
    IF crisis_level_str.type # "str"
    THEN \* crisis_level_str.lower() raises AttributeError: the outer except answers
         RouteAnswer(500, "Crisis escalation failed", FALSE, None, table)
    ELSE EscalateChecked(table, user_id, crisis_level_str.v, lower(crisis_level_str.v),
                         user_consent, trigger_content, escalation_type, db)

\* the /escalate route (escalate_crisis of crisis_routes.py)
escalate_crisis_route(table, user_id, data, db) ==
    IF data.keys = {}
    THEN RouteAnswer(400, "Request data is required", FALSE, None, table)
    ELSE EscalateValidate(table, user_id,
                          Get(data, "crisis_level", Str("medium")),
                          Get(data, "user_consent", FALSE),
                          Get(data, "trigger_content", ""),
                          Get(data, "escalation_type", "professional"), db)

\* ------------------------------------------- PUT /intervention-status/<id>
\* the JSON object of the request: keys are the keys present in it
Dict(keys, user_response, resolved, notes) ==
    [ keys |-> keys, user_response |-> user_response, resolved |-> resolved,
      notes |-> notes ]

\* datetime.utcnow() at the request number now
Datetime(now) == [ type |-> "datetime", v |-> now ]

\* filter_by(id=event_id, user_id=uid).first(): 0 stands for None
EventById(table, event_id, uid) ==
    IF \E i \in 1..Len(table) : table[i].id = event_id /\ table[i].user_id = uid
    THEN CHOOSE i \in 1..Len(table) : table[i].id = event_id /\ table[i].user_id = uid
    ELSE 0

\* a request whose resolved: false clears resolved_at
StatusFields_unresolve(row, data, now) ==
    [ row EXCEPT
        !.user_response = IF "user_response" \in data.keys
                          THEN Str(data.user_response) ELSE @,
        !.resolved_at = IF "resolved" \in data.keys
                        THEN (IF data.resolved THEN Datetime(now) ELSE None) ELSE @ ]

\* the row after the user_response and resolved parts of the request
StatusFields(row, data, now) ==
    [ row EXCEPT
        !.user_response = IF "user_response" \in data.keys
                          THEN Str(data.user_response) ELSE @,
        !.resolved_at = IF "resolved" \in data.keys /\ data.resolved
                        THEN Datetime(now) ELSE @ ]

\* the commit of the updated row, interventions the decoded log of the row
CommitNotes(table, r, data, now, interventions) ==
    IF ~interventions.ok
    THEN [ status |-> 500, events |-> table ]      \* json.loads raises: rollback
    ELSE [ status |-> 200,
           events |-> [ table EXCEPT ![r] =
               [ StatusFields(table[r], data, now) EXCEPT
                   !.intervention_taken =
                       json_dumps(Append(interventions.v, NoteEntry(data.notes))) ] ] ]

\* the update of the row r found (0 for None) and the commit
UpdateEvent(table, r, data, now) ==
    IF r = 0 THEN [ status |-> 404, events |-> table ]
    ELSE IF "notes" \in data.keys
    THEN CommitNotes(table, r, data, now,
            json_loads(IF table[r].intervention_taken = ""
                       THEN "[]" ELSE table[r].intervention_taken))
    ELSE [ status |-> 200,
           events |-> [ table EXCEPT ![r] = StatusFields(table[r], data, now) ] ]

\* update_intervention_status: the status code of the answer and the table after it
update_intervention_status(table, event_id, user_id, data, db, now) ==
    IF data.keys = {} THEN [ status |-> 400, events |-> table ]
    ELSE LET uid == int(user_id)
         IN  IF ~uid.ok \/ db # "ok"
             THEN [ status |-> 500, events |-> table ]   \* exception: rollback
             ELSE UpdateEvent(table, EventById(table, event_id, uid.v), data, now)

\* ------------------------------------------------------------------- inputs
\* the content values of the one-call specification: every text, and None
AssessInputs == { Str(c) : c \in Contents } \cup { None }

\* the members of the RiskFactor enum in declaration order
RiskFactorOrder ==
    << "SUICIDAL_IDEATION", "SELF_HARM", "SUBSTANCE_ABUSE", "ISOLATION",
       "HOPELESSNESS", "DEPRESSION", "ANXIETY", "TRAUMA",
       "RELATIONSHIP_ISSUES", "FINANCIAL_STRESS" >>

RECURSIVE FactorListFrom(_, _)
FactorListFrom(S, i) ==
    IF i > Len(RiskFactorOrder) THEN << >>
    ELSE (IF RiskFactorOrder[i] \in S THEN << RiskFactorOrder[i] >> ELSE << >>)
         \o FactorListFrom(S, i + 1)

\* the list of the factors of the set S
FactorList(S) == FactorListFrom(S, 1)

\* every detected_factors list of at most MaxFactors factors
FactorLists ==
    { FactorList(S) : S \in { T \in SUBSET RiskFactor : Cardinality(T) <= MaxFactors } }

\* risk scores: both ends of [0, 1] and each threshold with its two neighbours
ScoreGrid ==
    { 0, FP } \cup
    UNION { { (t * FP) \div 10 - 1, (t * FP) \div 10, (t * FP) \div 10 + 1 } :
            t \in { 2, 4, 6, 7, 8 } }

UserIds == { "1", "2", "test_user_123" }

DbStates == { "ok", "down" }

TriggerSources == { "chat" }

EscalationTypes == { "professional" }

\* the JSON objects of the update_intervention_status requests
UpdateData ==
    { Dict({}, "", FALSE, ""),
      Dict({ "resolved" }, "", FALSE, "") }
      \cup { Dict({ "user_response", "resolved", "notes" }, "I am safe now", TRUE, n) :
                n \in Notes }

\* the users and levels of the calls mixed with status updates
LifecycleUsers == { "1" }

LifecycleLevels == { "medium", "high" }

\* the crisis_level values of the /escalate requests: level values in lower and
\* upper case, strings that name no level, and null
RequestLevels ==
    { Str("medium"), Str("high"), Str("critical"), Str("HIGH"), Str("Critical"),
      Str("severe"), Str(" high"), Str(""), None }

\* the users of the /escalate requests: one with events, one whose id is no number
RouteUsers == { "1", "test_user_123" }

\* the JSON objects of the /escalate requests
EscalateData ==
    { EscalateDict({}, Str("medium"), FALSE),
      EscalateDict({ "trigger_content" }, Str("medium"), FALSE) }
      \cup { EscalateDict({ "crisis_level", "user_consent" }, l, c) :
                l \in RequestLevels, c \in BOOLEAN }
      \cup { EscalateDict({ "crisis_level" }, l, FALSE) : l \in RequestLevels }
      \cup { EscalateDict({ "user_consent" }, Str("medium"), c) : c \in BOOLEAN }

\* ------------------------------------------------------------------ actions
\* one call of assess_crisis_risk
Assess(user_id, content, trigger_source, db) ==
    /\ Len(events) < MaxEvents
    /\ \E r \in { assess_crisis_risk(events, user_id, content, trigger_source, db) } :
           /\ events' = r.events
           /\ last' = [ op |-> "assess", user_id |-> user_id, content |-> content,
                        trigger_source |-> trigger_source, db |-> db,
                        raised |-> r.raised, ret |-> r.ret ]
    /\ UNCHANGED << escalations, updates >>
    /\ UNCHANGED conversationVars

\* one call of escalate_crisis
Escalate(user_id, crisis_level, escalation_type, db) ==
    /\ escalations < MaxEscalations
    /\ \E r \in { escalate_crisis(events, EscalationAssessment(user_id, "", crisis_level),
                                  escalation_type, db) } :
           /\ events' = r.events
           /\ last' = [ op |-> "escalate", user_id |-> user_id,
                        crisis_level |-> crisis_level, db |-> db, ret |-> r.ret ]
    /\ escalations' = escalations + 1
    /\ UNCHANGED updates
    /\ UNCHANGED conversationVars

\* the call of assess_crisis_risk whose arguments Init chose
AssessPending ==
    /\ last.op = "pending"
    /\ \E r \in { assess_crisis_risk(events, last.user_id, last.content,
                                     last.trigger_source, last.db) } :
           /\ events' = r.events
           /\ last' = [ op |-> "assess", user_id |-> last.user_id,
                        content |-> last.content,
                        trigger_source |-> last.trigger_source, db |-> last.db,
                        raised |-> r.raised, ret |-> r.ret ]
    /\ UNCHANGED << escalations, updates >>
    /\ UNCHANGED conversationVars

\* one POST /escalate request
EscalateRoute(user_id, data, db) ==
    /\ escalations < MaxEscalations
    /\ \E r \in { escalate_crisis_route(events, user_id, data, db) } :
           /\ events' = r.events
           /\ last' = [ op |-> "escalate_route", user_id |-> user_id, data |-> data,
                        db |-> db, status |-> r.status, message |-> r.message,
                        performed |-> r.performed, ret |-> r.ret ]
           /\ escalations' = IF r.performed THEN escalations + 1 ELSE escalations
    /\ UNCHANGED updates
    /\ UNCHANGED conversationVars

\* one PUT /intervention-status/<event_id> request
UpdateInterventionStatus(event_id, user_id, data, db) ==
    /\ updates < MaxUpdates
    /\ \E r \in { update_intervention_status(events, event_id, user_id, data, db,
                                              updates + 1) } :
           /\ events' = r.events
           /\ last' = [ op |-> "update", event_id |-> event_id, user_id |-> user_id,
                        data |-> data, db |-> db, status |-> r.status ]
    /\ updates' = updates + 1
    /\ UNCHANGED escalations
    /\ UNCHANGED conversationVars

Init ==
    /\ NoConversations
    /\ events = << >>
    /\ last = [ op |-> "init" ]
    /\ escalations = 0
    /\ updates = 0

Next ==
    \/ \E u \in UserIds, c \in StoreContents, t \in TriggerSources, d \in DbStates :
          Assess(u, c, t, d)
    \/ \E u \in UserIds, l \in CrisisLevel, t \in EscalationTypes, d \in DbStates :
          Escalate(u, l, t, d)

\* the service under sequences of calls
Spec == Init /\ [][Next]_vars

NextLifecycle ==
    \/ \E u \in LifecycleUsers, c \in LifecycleContents, t \in TriggerSources :
          Assess(u, c, t, "ok")
    \/ \E u \in LifecycleUsers, l \in LifecycleLevels, t \in EscalationTypes :
          Escalate(u, l, t, "ok")
    \/ \E i \in 1..MaxEvents, u \in UserIds, data \in UpdateData, d \in DbStates :
          UpdateInterventionStatus(i, u, data, d)

\* the events under assess, escalate and status update operations
SpecLifecycle == Init /\ [][NextLifecycle]_vars

NextRoute ==
    \/ \E u \in LifecycleUsers, c \in LifecycleContents, t \in TriggerSources :
          Assess(u, c, t, "ok")
    \/ \E u \in RouteUsers, data \in EscalateData, d \in DbStates :
          EscalateRoute(u, data, d)

\* the events under assessments and /escalate requests
SpecRoute == Init /\ [][NextRoute]_vars

InitAssess ==
    /\ NoConversations
    /\ events = << >>
    /\ escalations = 0
    /\ updates = 0
    /\ \E u \in UserIds, c \in AssessInputs, t \in TriggerSources, d \in DbStates :
          last = [ op |-> "pending", user_id |-> u, content |-> c,
                   trigger_source |-> t, db |-> d ]

NextAssess == AssessPending

\* one call of assess_crisis_risk on an empty table, for every text
SpecAssess == InitAssess /\ [][NextAssess]_vars

\* the call of _determine_crisis_level whose arguments InitLevel chose
DetermineLevel ==
    /\ last.op = "level_pending"
    /\ last' = [ op |-> "level", risk_score |-> last.risk_score,
                 detected_factors |-> last.detected_factors,
                 ret |-> _determine_crisis_level(last.risk_score,
                                                 last.detected_factors) ]
    /\ UNCHANGED << events, escalations, updates >>
    /\ UNCHANGED conversationVars

InitLevel ==
    /\ NoConversations
    /\ events = << >>
    /\ escalations = 0
    /\ updates = 0
    /\ \E s \in ScoreGrid, f \in FactorLists :
          last = [ op |-> "level_pending", risk_score |-> s, detected_factors |-> f ]

NextLevel == DetermineLevel

\* one call of _determine_crisis_level, for every score of the grid and factor list
SpecLevel == InitLevel /\ [][NextLevel]_vars

\* the entries of list at the positions of S, in the order of list, from j on
RECURSIVE Pick(_, _, _)
Pick(list, S, j) ==
    IF j > Len(list) THEN << >>
    ELSE (IF j \in S THEN << list[j] >> ELSE << >>) \o Pick(list, S, j + 1)

\* " ".join(words), from position j on
RECURSIVE JoinWords(_, _)
JoinWords(words, j) ==
    IF j > Len(words) THEN ""
    ELSE (IF j > 1 THEN " " ELSE "") \o words[j] \o JoinWords(words, j + 1)

\* the sets of at most n positions of list
Choices(list, n) == { S \in SUBSET (1..Len(list)) : Cardinality(S) <= n }

\* the sets of at most n positions of list that lie within n places of each other
NearChoices(list, n) ==
    { S \in Choices(list, n) : \A a \in S, b \in S : a - b <= n }

\* the word that may follow the keywords and modifiers of a text
NegationWords == { "", "don't", "never" }

\* the lower-case text made of the chosen keywords and modifiers of a pattern
PatternText(pattern, K, Mo) ==
    JoinWords(Pick(pattern.keywords, K, 1) \o Pick(pattern.context_modifiers, Mo, 1), 1)

\* text followed by the word n, if any
WithWord(text, n) ==
    IF n = "" THEN text ELSE IF text = "" THEN n ELSE text \o " " \o n

\* the call of _evaluate_pattern whose arguments InitPattern chose
EvaluatePattern ==
    /\ last.op = "pattern_pending"
    /\ last' = [ op |-> "pattern", pattern |-> last.pattern, base |-> last.base,
                 content |-> last.content,
                 ret |-> _evaluate_pattern(last.content, crisis_patterns[last.pattern]) ]
    /\ UNCHANGED << events, escalations, updates >>
    /\ UNCHANGED conversationVars

InitPattern ==
    /\ NoConversations
    /\ events = << >>
    /\ escalations = 0
    /\ updates = 0
    /\ \E i \in 1..Len(crisis_patterns), n \in NegationWords :
       \E K \in NearChoices(crisis_patterns[i].keywords, MaxKeywords),
          Mo \in Choices(crisis_patterns[i].context_modifiers, MaxModifiers) :
       \E text \in { PatternText(crisis_patterns[i], K, Mo) } :
          last = [ op |-> "pattern_pending", pattern |-> i, base |-> text,
                   content |-> WithWord(text, n) ]

\* the texts of the one-call specification, assessed for one user
InitScore ==
    /\ NoConversations
    /\ events = << >>
    /\ escalations = 0
    /\ updates = 0
    /\ \E c \in AssessInputs, t \in TriggerSources :
          last = [ op |-> "pending", user_id |-> "1", content |-> c,
                   trigger_source |-> t, db |-> "ok" ]

NextPattern ==
    \/ AssessPending
    \/ EvaluatePattern

\* one call of _evaluate_pattern for every pattern and every text made of its
\* keywords and modifiers, or one call of assess_crisis_risk for every text
SpecPattern == (InitScore \/ InitPattern) /\ [][NextPattern]_vars

\* the first entries of a keyword or modifier list, one more than may be chosen
MoreWords(list) == Take(list, MaxKeywords + 1)

\* the word that may follow both texts of a comparison
MoreNegations == { "", "don't" }

\* the two calls of _evaluate_pattern whose arguments InitMore chose
EvaluateMore ==
    /\ last.op = "more_pending"
    /\ last' = [ op |-> "more", pattern |-> last.pattern, content |-> last.content,
                 more |-> last.more,
                 ret |-> _evaluate_pattern(last.content, crisis_patterns[last.pattern]),
                 ret_more |-> _evaluate_pattern(last.more, crisis_patterns[last.pattern]) ]
    /\ UNCHANGED << events, escalations, updates >>
    /\ UNCHANGED conversationVars

\* a text of keywords K and modifiers Mo of a pattern, and the text with one more
\* keyword or one more modifier of the pattern
InitMore ==
    /\ NoConversations
    /\ events = << >>
    /\ escalations = 0
    /\ updates = 0
    /\ \E i \in 1..Len(crisis_patterns), n \in MoreNegations :
       \E kws \in { MoreWords(crisis_patterns[i].keywords) },
          mods \in { MoreWords(crisis_patterns[i].context_modifiers) } :
       \E K \in Choices(kws, MaxKeywords), Mo \in Choices(mods, MaxKeywords) :
       \E K2 \in { K } \cup { K \cup { e } : e \in 1..Len(kws) },
          Mo2 \in { Mo } \cup { Mo \cup { e } : e \in 1..Len(mods) } :
          /\ Cardinality(K2) + Cardinality(Mo2) = Cardinality(K) + Cardinality(Mo) + 1
          /\ last = [ op |-> "more_pending", pattern |-> i,
                      content |-> WithWord(JoinWords(Pick(kws, K, 1) \o Pick(mods, Mo, 1), 1), n),
                      more |-> WithWord(JoinWords(Pick(kws, K2, 1) \o Pick(mods, Mo2, 1), 1), n) ]

NextMore == EvaluateMore

\* two calls of _evaluate_pattern for every pattern, on a text of its keywords and
\* modifiers and on the text with one more of them
SpecMore == InitMore /\ [][NextMore]_vars

\* texts of at most 50, of more than 50 and of more than 100 characters after
\* strip(), with and without an intent phrase
ConfidenceContents ==
    { "",
      "Short message",
      "I WILL be fine",
      "   I need help                                              ",
      "This is a much longer message that provides more context and detail about the user's situation",
      "This is a much longer message that provides more context and detail about the user's situation, and I want to talk" }

\* one detected_factors list of each length up to MaxFactors
ConfidenceFactorLists == { Take(RiskFactorOrder, n) : n \in 0..MaxFactors }

\* risk scores in steps of 0.1
ConfidenceScores == { (j * FP) \div 10 : j \in 0..10 }

\* the call of _calculate_confidence whose arguments InitConfidence chose
CalculateConfidence ==
    /\ last.op = "confidence_pending"
    /\ last' = [ op |-> "confidence", content |-> last.content,
                 detected_factors |-> last.detected_factors,
                 risk_score |-> last.risk_score,
                 ret |-> _calculate_confidence(last.content, last.detected_factors,
                                               last.risk_score) ]
    /\ UNCHANGED << events, escalations, updates >>
    /\ UNCHANGED conversationVars

InitConfidence ==
    /\ NoConversations
    /\ events = << >>
    /\ escalations = 0
    /\ updates = 0
    /\ \E c \in ConfidenceContents, f \in ConfidenceFactorLists, s \in ConfidenceScores :
          last = [ op |-> "confidence_pending", content |-> c,
                   detected_factors |-> f, risk_score |-> s ]

NextConfidence == CalculateConfidence

\* one call of _calculate_confidence for every text, factor list and score
SpecConfidence == InitConfidence /\ [][NextConfidence]_vars

\* the call of _generate_interventions whose arguments InitAdvice chose
GenerateInterventions ==
    /\ last.op = "advice_pending"
    /\ last' = [ op |-> "interventions", crisis_level |-> last.crisis_level,
                 detected_factors |-> last.detected_factors,
                 ret |-> _generate_interventions(last.crisis_level,
                                                 last.detected_factors) ]
    /\ UNCHANGED << events, escalations, updates >>
    /\ UNCHANGED conversationVars

\* the call of _get_relevant_resources whose arguments InitAdvice chose
GetRelevantResources ==
    /\ last.op = "advice_pending"
    /\ last' = [ op |-> "resources", crisis_level |-> last.crisis_level,
                 detected_factors |-> last.detected_factors,
                 ret |-> _get_relevant_resources(last.crisis_level,
                                                 last.detected_factors) ]
    /\ UNCHANGED << events, escalations, updates >>
    /\ UNCHANGED conversationVars

InitAdvice ==
    /\ NoConversations
    /\ events = << >>
    /\ escalations = 0
    /\ updates = 0
    /\ \E l \in CrisisLevel, f \in FactorLists :
          last = [ op |-> "advice_pending", crisis_level |-> l, detected_factors |-> f ]

NextAdvice ==
    \/ AssessPending
    \/ GenerateInterventions
    \/ GetRelevantResources

\* one call of _generate_interventions or _get_relevant_resources for every
\* level and factor list, or one call of assess_crisis_risk for every text
SpecAdvice == (InitAssess \/ InitAdvice) /\ [][NextAdvice]_vars

\* =================================================================== claims

\* C1: for the content "I have a plan to end my life tonight", assess_crisis_risk
\* returns a HIGH or CRITICAL level, immediate_action_required, escalation_needed
\* and SUICIDAL_IDEATION among the detected factors.
C1_PlanTonightImmediate ==
    (last.op = "assess" /\ last.content = Str("I have a plan to end my life tonight"))
        => /\ last.ret.crisis_level \in { "high", "critical" }
           /\ last.ret.immediate_action_required
           /\ last.ret.escalation_needed
           /\ In("SUICIDAL_IDEATION", last.ret.detected_factors)

\* C2: an assessment with SUICIDAL_IDEATION detected and a clamped risk score
\* above 0.8 is CRITICAL and needs escalation, and no other assessment is CRITICAL.
C2_CriticalIffSuicidalAndScore ==
    last.op = "assess" =>
        LET a == last.ret
            both == In("SUICIDAL_IDEATION", a.detected_factors)
                    /\ a.risk_score > (8 * FP) \div 10
        IN  /\ both => (a.crisis_level = "critical" /\ a.escalation_needed)
            /\ a.crisis_level = "critical" => both

\* a CRITICAL assessment has been returned
C2_Witness ==
    /\ last.op = "assess"
    /\ last.ret.crisis_level = "critical"
    /\ In("SUICIDAL_IDEATION", last.ret.detected_factors)
    /\ last.ret.risk_score > (8 * FP) \div 10

C4_NeverRaisesSafeDefault ==
    last.op = "assess" =>
        /\ ~last.raised
        /\ last.content.type # "str" =>
              /\ last.ret.crisis_level = "none"
              /\ last.ret.risk_score = 0
              /\ last.ret.detected_factors = << >>
              /\ ~last.ret.immediate_action_required
              /\ ~last.ret.escalation_needed
              /\ Len(last.ret.safety_resources) >= 1

\* a call with content None has returned
C4_Witness ==
    /\ last.op = "assess"
    /\ last.content = None
    /\ ~last.raised
    /\ last.ret.recommended_interventions = << "Contact support if you need help" >>

C6_EmptyContentIsSafeDefault ==
    (last.op = "assess" /\ last.content = Str(""))
        => /\ ~last.raised
           /\ last.ret = _create_safe_default_assessment(last.user_id, last.content)

\* C6: for empty content assess_crisis_risk raises nothing and returns the
\* assessment of the normal path: level NONE, score 0, no factors, confidence 0.5,
\* no immediate action, no escalation, no interventions and the first two
\* non-emergency resources of the catalog; no event is stored.
C6_EmptyContentIsNormalNone ==
    (last.op = "assess" /\ last.content = Str(""))
        => /\ ~last.raised
           /\ last.ret.crisis_level = "none"
           /\ last.ret.risk_score = 0
           /\ last.ret.detected_factors = << >>
           /\ last.ret.confidence = (5 * FP) \div 10
           /\ ~last.ret.immediate_action_required
           /\ ~last.ret.escalation_needed
           /\ last.ret.recommended_interventions = << >>
           /\ Len(last.ret.safety_resources) = 2
           /\ last.ret.safety_resources[1].name = "Psychology Today Therapist Finder"
           /\ last.ret.safety_resources[2].name = "BetterHelp Online Therapy"
           /\ events = << >>

\* a call with empty content has returned
C6_Witness ==
    /\ last.op = "assess"
    /\ last.content = Str("")
    /\ last.ret.crisis_level = "none"
    /\ last.ret.confidence > 0

\* C7: _determine_crisis_level follows the decision table, first match winning:
\* CRITICAL iff SUICIDAL_IDEATION and score > 0.8; else HIGH iff score > 0.7 or
\* SUICIDAL_IDEATION or SELF_HARM or (HOPELESSNESS and score > 0.6); else MEDIUM
\* iff score > 0.4 or at least 2 factors or HOPELESSNESS; else LOW iff
\* score > 0.2 or at least 1 factor; else NONE.
C7_LevelFollowsDecisionTable ==
    last.op = "level" =>
        LET score == last.risk_score
            has(f) == \E i \in 1..Len(last.detected_factors) : last.detected_factors[i] = f
            n == Len(last.detected_factors)
            critical == has("SUICIDAL_IDEATION") /\ 10 * score > 8 * FP
            high == \/ 10 * score > 7 * FP
                    \/ has("SUICIDAL_IDEATION")
                    \/ has("SELF_HARM")
                    \/ (has("HOPELESSNESS") /\ 10 * score > 6 * FP)
            medium == 10 * score > 4 * FP \/ n >= 2 \/ has("HOPELESSNESS")
            low == 10 * score > 2 * FP \/ n >= 1
        IN  /\ last.ret = "critical" <=> critical
            /\ last.ret = "high" <=> (~critical /\ high)
            /\ last.ret = "medium" <=> (~critical /\ ~high /\ medium)
            /\ last.ret = "low" <=> (~critical /\ ~high /\ ~medium /\ low)
            /\ last.ret = "none" <=> (~critical /\ ~high /\ ~medium /\ ~low)

\* two factors at a score of at most 0.4 were rated MEDIUM
C7_Witness ==
    /\ last.op = "level"
    /\ last.ret = "medium"
    /\ Len(last.detected_factors) = 2
    /\ 10 * last.risk_score <= 4 * FP

\* C8: a call of assess_crisis_risk with an integer user id, a working store and
\* a level other than NONE appends exactly one CrisisEvent, which carries the
\* level, the trigger content, the recommended interventions as its intervention
\* log and professional_notified = escalation_needed; a call that returns NONE
\* appends nothing; no stored event has crisis_level "none".
C8_OneEventPerRiskAssessment ==
    /\ [](\A i \in 1..Len(events) : events[i].crisis_level # "none")
    /\ [][ ( /\ last'.op = "assess"
             /\ int(last'.user_id).ok
             /\ last'.db = "ok" )
           => IF last'.ret.crisis_level # "none"
              THEN /\ Len(events') = Len(events) + 1
                   /\ SubSeq(events', 1, Len(events)) = events
                   /\ \A e \in { events'[Len(events')] } :
                         /\ e.user_id = int(last'.user_id).v
                         /\ e.crisis_level = last'.ret.crisis_level
                         /\ e.trigger_content = last'.content
                         /\ json_loads(e.intervention_taken) =
                               [ ok |-> TRUE, v |-> last'.ret.recommended_interventions ]
                         /\ e.professional_notified = last'.ret.escalation_needed
              ELSE events' = events
         ]_vars

\* the second event of the table was stored by the last call, a LOW assessment
C8_Witness ==
    /\ last.op = "assess"
    /\ last.db = "ok"
    /\ last.ret.crisis_level = "low"
    /\ Len(events) = 2
    /\ events[2].crisis_level = "low"
    /\ events[2].trigger_content = last.content
    /\ ~events[2].professional_notified
    /\ events[1].crisis_level = "high"

\* C9: escalate_crisis returns escalated = true whether or not the user has a
\* stored event and whether or not the event update succeeds; for HIGH with the 3
\* actions including "Crisis counselor assigned" and 3 next steps including
\* contact within 2 hours; for CRITICAL with the 4 actions including "Crisis team
\* notified immediately" and "Emergency contact attempted" and a next step that
\* mentions emergency services.
C9_EscalationResultByLevel ==
    last.op = "escalate" =>
        /\ last.ret.escalated = TRUE
        /\ last.crisis_level = "high" =>
              /\ Len(last.ret.actions_taken) = 3
              /\ In("Crisis counselor assigned", last.ret.actions_taken)
              /\ Len(last.ret.next_steps) = 3
              /\ \E i \in 1..Len(last.ret.next_steps) :
                    Contains(last.ret.next_steps[i], "within 2 hours")
        /\ last.crisis_level = "critical" =>
              /\ Len(last.ret.actions_taken) = 4
              /\ In("Crisis team notified immediately", last.ret.actions_taken)
              /\ In("Emergency contact attempted", last.ret.actions_taken)
              /\ \E i \in 1..Len(last.ret.next_steps) :
                    Contains(lower(last.ret.next_steps[i]), "emergency services")

\* a CRITICAL escalation has returned although the store was down and the user
\* has no stored event
C9_Witness ==
    /\ last.op = "escalate"
    /\ last.crisis_level = "critical"
    /\ last.db = "down"
    /\ \A i \in 1..Len(events) : ~int(last.user_id).ok \/ events[i].user_id # int(last.user_id).v
    /\ last.ret.escalated = TRUE
    /\ Len(last.ret.actions_taken) = 4

\* C10: escalate_crisis called with level MEDIUM, LOW or NONE returns
\* escalated = true with no actions and no next steps, adds no event and leaves
\* the intervention log of every event as it was.
C10_OtherLevelsEmptyEscalation ==
    [][ (last'.op = "escalate" /\ last'.crisis_level \in { "medium", "low", "none" })
        => /\ last'.ret.escalated = TRUE
           /\ last'.ret.actions_taken = << >>
           /\ last'.ret.next_steps = << >>
           /\ Len(events') = Len(events)
           /\ \A i \in 1..Len(events) :
                 json_loads(events'[i].intervention_taken) =
                     json_loads(events[i].intervention_taken)
      ]_vars

\* a MEDIUM escalation has marked the user's LOW event as notified, and the log of
\* that event holds no escalation action
C10_Witness ==
    /\ last.op = "escalate"
    /\ last.crisis_level = "medium"
    /\ last.db = "ok"
    /\ last.ret.actions_taken = << >>
    /\ \E i \in 1..Len(events) :
          /\ int(last.user_id).ok
          /\ events[i].user_id = int(last.user_id).v
          /\ events[i].crisis_level = "low"
          /\ events[i].professional_notified
          /\ \A e \in { json_loads(events[i].intervention_taken) } :
                /\ e.ok
                /\ ~In(HighActions[1], e.v)
                /\ ~In(CriticalActions[1], e.v)

\* C11: an escalate_crisis call of a user with a stored event (integer user id,
\* working store) appends its actions_taken, in order and without deduplication,
\* to the end of the intervention log of the event of that user with the latest
\* created_at at the time of the call, and changes no other event.
C11_EscalationAppendsToMostRecent ==
    [][ ( /\ last'.op = "escalate"
          /\ last'.db = "ok"
          /\ int(last'.user_id).ok
          /\ \E i \in 1..Len(events) : events[i].user_id = int(last'.user_id).v )
        => \E r \in 1..Len(events) :
              /\ events[r].user_id = int(last'.user_id).v
              /\ \A j \in 1..Len(events) :
                    events[j].user_id = events[r].user_id
                        => events[j].created_at <= events[r].created_at
              /\ Len(events') = Len(events)
              /\ \A j \in 1..Len(events) : j # r => events'[j] = events[j]
              /\ \A before \in { json_loads(events[r].intervention_taken) } :
                    json_loads(events'[r].intervention_taken) =
                        [ ok |-> TRUE, v |-> before.v \o last'.ret.actions_taken ]
      ]_vars

\* two HIGH escalations after the user's second assessment: the log of the newer
\* event ends with two copies of the HIGH actions and the older event has none
C11_Witness ==
    /\ last.op = "escalate"
    /\ last.crisis_level = "high"
    /\ Len(events) = 2
    /\ int(last.user_id).ok
    /\ events[1].user_id = int(last.user_id).v
    /\ events[2].user_id = int(last.user_id).v
    /\ \A old \in { json_loads(events[1].intervention_taken) } :
          old.ok /\ ~In(HighActions[1], old.v)
    /\ \A new \in { json_loads(events[2].intervention_taken) } :
          /\ new.ok
          /\ Len(new.v) > 2 * Len(HighActions)
          /\ SubSeq(new.v, Len(new.v) - 2 * Len(HighActions) + 1, Len(new.v))
                = HighActions \o HighActions

\* C12: under assess, escalate and status update operations no stored event is
\* deleted, the intervention log of an event only grows at its end, a set
\* professional_notified or resolved_at is never unset, and crisis_level,
\* trigger_content and trigger_source of an event never change.
C12_EventsOnlyGrow ==
    [][ /\ Len(events') >= Len(events)
        /\ \A i \in 1..Len(events) :
              /\ events'[i].id = events[i].id
              /\ events'[i].crisis_level = events[i].crisis_level
              /\ events'[i].trigger_content = events[i].trigger_content
              /\ events'[i].trigger_source = events[i].trigger_source
              /\ events[i].professional_notified => events'[i].professional_notified
              /\ events[i].resolved_at # None => events'[i].resolved_at # None
              /\ \A old \in { json_loads(events[i].intervention_taken) } :
                 \A new \in { json_loads(events'[i].intervention_taken) } :
                    /\ old.ok /\ new.ok
                    /\ Len(old.v) <= Len(new.v)
                    /\ SubSeq(new.v, 1, Len(old.v)) = old.v
      ]_vars

\* an event that was escalated and resolved has answered a later request with
\* resolved: false, and its log holds the actions followed by the user's note
C12_Witness ==
    /\ last.op = "update"
    /\ last.status = 200
    /\ "resolved" \in last.data.keys
    /\ ~last.data.resolved
    /\ \E i \in 1..Len(events) :
          /\ events[i].id = last.event_id
          /\ events[i].resolved_at # None
          /\ events[i].professional_notified
          /\ \A log \in { json_loads(events[i].intervention_taken) } :
                /\ log.ok
                /\ Len(log.v) > Len(HighActions) + 1
                /\ SubSeq(log.v, Len(log.v) - Len(HighActions), Len(log.v))
                      = HighActions \o << NoteEntry("talked to \"Sam\"") >>

\* C13: every result of _generate_interventions, at every level and for every
\* factor list, and the recommended_interventions of every assessment returned
\* by assess_crisis_risk, the safe default included, has at most 5 entries.
C13_AtMostFiveInterventions ==
    /\ last.op = "interventions" => Len(last.ret) <= 5
    /\ last.op = "assess" => Len(last.ret.recommended_interventions) <= 5

\* a HIGH level with ISOLATION and SUBSTANCE_ABUSE was cut to the five HIGH entries
C13_Witness ==
    /\ last.op = "interventions"
    /\ last.crisis_level = "high"
    /\ In("ISOLATION", last.detected_factors)
    /\ In("SUBSTANCE_ABUSE", last.detected_factors)
    /\ last.ret = HighInterventions

\* C14: the score _evaluate_pattern returns for a pattern is at most the
\* severity_weight of the pattern.
C14_ScoreAtMostSeverityWeight ==
    last.op = "pattern" => last.ret <= crisis_patterns[last.pattern].severity_weight

\* C15: when a negation term is added to a text that has none, and the keywords
\* and modifiers matched stay the same, the pattern score is never greater than
\* before and never zero; with exactly one keyword matched it is 0.7 times the
\* score before, strictly less than it and strictly greater than zero.  A matched
\* pattern never scores zero, negated or not.
C15_NegationDampensNeverZero ==
    last.op = "pattern" =>
        \A p \in { crisis_patterns[last.pattern] } :
            /\ keyword_matches(last.content, p) >= 1 => last.ret > 0
            /\ ( /\ last.content # last.base
                 /\ negation_found(last.content)
                 /\ ~negation_found(last.base)
                 /\ keyword_matches(last.base, p) >= 1
                 /\ keyword_matches(last.content, p) = keyword_matches(last.base, p)
                 /\ context_bonus(last.content, p) = context_bonus(last.base, p) )
               => \A plain \in { _evaluate_pattern(last.base, p) } :
                  /\ last.ret <= plain
                  /\ keyword_matches(last.base, p) = 1
                        => (10 * last.ret = 7 * plain /\ last.ret < plain)

\* "kill myself tonight" scored 0.4 and "kill myself tonight don't" scored 0.28
C15_Witness ==
    /\ last.op = "pattern"
    /\ last.pattern = 1
    /\ last.base = "kill myself tonight"
    /\ last.content = "kill myself tonight don't"
    /\ last.ret = (28 * FP) \div 100

\* C16: with k the number of keywords of the pattern that occur in the content,
\* m the number of its context modifiers that occur and w its severity_weight,
\* _evaluate_pattern returns 0 when k = 0 and otherwise
\* min(1, (0.3*w*k + (0.2*w if k > 1) + min(0.1*m, 0.3*w)) * (0.7 if a negation
\* term occurs)); the risk_score of an assessment is min(1, the sum of the scores
\* of the patterns).
C16_PatternScoreFormula ==
    /\ last.op = "pattern" =>
          \A p \in { crisis_patterns[last.pattern] } :
             LET k == Cardinality({ j \in 1..Len(p.keywords) :
                                      Contains(last.content, p.keywords[j]) })
                 m == Cardinality({ j \in 1..Len(p.context_modifiers) :
                                      Contains(last.content, p.context_modifiers[j]) })
                 neg == \E j \in 1..Len(negation_patterns) :
                           Contains(last.content, negation_patterns[j])
                 w == p.severity_weight
                 tenfold == 3 * w * k + (IF k > 1 THEN 2 * w ELSE 0)
                            + (IF m * FP < 3 * w THEN m * FP ELSE 3 * w)
                 hundredfold == IF neg THEN 7 * tenfold ELSE 10 * tenfold
             IN  IF k = 0 THEN last.ret = 0
                 ELSE 100 * last.ret =
                          (IF hundredfold < 100 * FP THEN hundredfold ELSE 100 * FP)
    /\ (last.op = "assess" /\ last.content.type = "str") =>
          \A text \in { lower(last.content.v) } :
             LET sum[i \in 0..Len(crisis_patterns)] ==
                     IF i = 0 THEN 0
                     ELSE sum[i - 1] + _evaluate_pattern(text, crisis_patterns[i])
                 total == sum[Len(crisis_patterns)]
             IN  last.ret.risk_score = IF total < FP THEN total ELSE FP

\* an assessment whose pattern scores 1.0 and 0.27 were summed and clamped to 1.0
C16_Witness ==
    /\ last.op = "assess"
    /\ last.content.type = "str"
    /\ last.ret.detected_factors = << "SUICIDAL_IDEATION", "SELF_HARM" >>
    /\ _evaluate_pattern(lower(last.content.v), crisis_patterns[1]) = FP
    /\ _evaluate_pattern(lower(last.content.v), crisis_patterns[2]) = (27 * FP) \div 100
    /\ last.ret.risk_score = FP

\* C17: the result of _calculate_confidence lies in [0, 1], and with the content
\* fixed it does not decrease when the risk score grows or when a factor is added
\* to the detected factors.
C17_ConfidenceMonotoneInRange ==
    last.op = "confidence" =>
        /\ 0 <= last.ret /\ last.ret <= FP
        /\ \A s \in ConfidenceScores :
              s >= last.risk_score =>
                 _calculate_confidence(last.content, last.detected_factors, s) >= last.ret
        /\ \A f \in RiskFactor :
              _calculate_confidence(last.content, Append(last.detected_factors, f),
                                    last.risk_score) >= last.ret

\* a confidence below 1 that grows with one more factor and with a higher score
C17_Witness ==
    /\ last.op = "confidence"
    /\ last.content = "Short message"
    /\ last.detected_factors = << "SUICIDAL_IDEATION" >>
    /\ last.risk_score = (7 * FP) \div 10
    /\ last.ret = (79 * FP) \div 100
    /\ _calculate_confidence(last.content, << "SUICIDAL_IDEATION", "SELF_HARM" >>,
                             last.risk_score)
          > last.ret
    /\ _calculate_confidence(last.content, last.detected_factors, (8 * FP) \div 10)
          > last.ret

\* C18: what assess_crisis_risk returns (crisis_level, risk_score,
\* detected_factors, confidence, interventions, resources) is determined by
\* (user_id, content): it is what the same call returns on an empty store with a
\* working database, whatever the store holds and whatever calls came before.
C18_AssessDeterministic ==
    [][ last'.op = "assess"
        => \A fresh \in { assess_crisis_risk(<< >>, last'.user_id, last'.content,
                                             last'.trigger_source, "ok") } :
              /\ last'.raised = fresh.raised
              /\ last'.ret.crisis_level = fresh.ret.crisis_level
              /\ last'.ret.risk_score = fresh.ret.risk_score
              /\ last'.ret.detected_factors = fresh.ret.detected_factors
              /\ last'.ret.confidence = fresh.ret.confidence
              /\ last'.ret.recommended_interventions = fresh.ret.recommended_interventions
              /\ last'.ret.safety_resources = fresh.ret.safety_resources ]_vars

\* the second of two assessments of the same text for the same user, made after
\* an escalation has rewritten the first event
C18_Witness ==
    /\ last.op = "assess"
    /\ last.user_id = "1"
    /\ last.content = Str("I have a plan to end my life tonight")
    /\ last.ret.crisis_level = "high"
    /\ escalations = 1
    /\ Len(events) = 2
    /\ events[1].user_id = 1
    /\ events[2].user_id = 1
    /\ events[1].trigger_content = last.content
    /\ events[1].professional_notified
    /\ events[1].intervention_taken # events[2].intervention_taken

\* C19: _get_relevant_resources returns, for MEDIUM, HIGH and CRITICAL, the first
\* three emergency resources of the catalog followed by its first two
\* non-emergency resources, and for NONE and LOW those two only, in the order of
\* the catalog and whatever the detected factors are.
C19_ResourcesByLevel ==
    last.op = "resources" =>
        /\ \A k \in 1..3 : safety_resources[k].is_emergency
        /\ \A k \in 4..5 : ~safety_resources[k].is_emergency
        /\ IF last.crisis_level \in { "medium", "high", "critical" }
           THEN /\ Len(last.ret) = 5
                /\ \A k \in 1..5 : last.ret[k] = ResourceDict(safety_resources[k])
                /\ [ k \in 1..5 |-> last.ret[k].name ] =
                      << "988 Suicide & Crisis Lifeline", "Crisis Text Line", "Samaritans",
                         "Psychology Today Therapist Finder", "BetterHelp Online Therapy" >>
           ELSE /\ Len(last.ret) = 2
                /\ \A k \in 1..2 : last.ret[k] = ResourceDict(safety_resources[k + 3])
                /\ [ k \in 1..2 |-> last.ret[k].name ] =
                      << "Psychology Today Therapist Finder", "BetterHelp Online Therapy" >>
        /\ last.ret = _get_relevant_resources(last.crisis_level, << >>)

\* the five resources of a MEDIUM level reached with three detected factors
C19_Witness ==
    /\ last.op = "resources"
    /\ last.crisis_level = "medium"
    /\ Len(last.detected_factors) = 3
    /\ Len(last.ret) = 5
    /\ last.ret[3].contact = "116 123"
    /\ last.ret[4].type = "website"

\* C20: a /escalate request whose crisis_level string names no level (the route
\* compares it in lower case), or names a level other than CRITICAL without
\* user_consent being true, is answered with a validation error (400), no
\* escalation is performed and the events are unchanged; a request for CRITICAL
\* is escalated with or without consent.
C20_EscalateRouteValidation ==
    [][ ( /\ last'.op = "escalate_route"
          /\ "crisis_level" \in last'.data.keys
          /\ last'.data.crisis_level.type = "str" )
        => \A level \in { lower(last'.data.crisis_level.v) } :
           \A consent \in { "user_consent" \in last'.data.keys /\ last'.data.user_consent } :
              /\ (level \notin CrisisLevel \/ (level # "critical" /\ ~consent))
                    => /\ last'.status = 400
                       /\ ~last'.performed
                       /\ events' = events
                       /\ escalations' = escalations
              /\ level = "critical"
                    => /\ last'.status = 200
                       /\ last'.performed
                       /\ last'.ret.escalated
                       /\ last'.ret.actions_taken = CriticalActions
                       /\ escalations' = escalations + 1 ]_vars

\* a HIGH request without consent refused after a CRITICAL request without
\* consent was escalated on the stored event of the user
C20_Witness ==
    /\ last.op = "escalate_route"
    /\ last.data.keys = { "crisis_level" }
    /\ last.data.crisis_level = Str("high")
    /\ last.status = 400
    /\ last.message = "User consent required for escalation"
    /\ escalations = 1
    /\ Len(events) = 1
    /\ last.user_id = "1"
    /\ events[1].user_id = 1
    /\ \A log \in { json_loads(events[1].intervention_taken) } :
          /\ log.ok
          /\ Len(log.v) > Len(CriticalActions)
          /\ SubSeq(log.v, Len(log.v) - Len(CriticalActions) + 1, Len(log.v))
                = CriticalActions

\* C21: for LOW, MEDIUM, HIGH and CRITICAL and every list of detected factors,
\* _generate_interventions returns exactly the five base entries of the level in
\* declaration order; no factor-specific entry takes the place of a base entry.
C21_BaseInterventionsOnly ==
    (last.op = "interventions" /\ last.crisis_level # "none") =>
        /\ Len(last.ret) = 5
        /\ last.ret = CASE last.crisis_level = "critical" -> CriticalInterventions
                        [] last.crisis_level = "high"     -> HighInterventions
                        [] last.crisis_level = "medium"   -> MediumInterventions
                        [] last.crisis_level = "low"      -> LowInterventions
        /\ last.ret[1] = CASE last.crisis_level = "critical" ->
                                "Immediate professional intervention required"
                           [] last.crisis_level = "high" ->
                                "Contact crisis support immediately: 988"
                           [] last.crisis_level = "medium" ->
                                "Connect with mental health professional"
                           [] last.crisis_level = "low" -> "Monitor mood closely"
        /\ last.crisis_level = "critical" =>
              last.ret[2] = "Contact emergency services (911) if in immediate danger"
        /\ \A k \in 1..Len(last.ret) :
              last.ret[k] \notin { "Focus on social connection and support",
                                   "Consider addiction treatment resources",
                                   "Seek trauma-informed therapy" }

\* a LOW level with ISOLATION, SUBSTANCE_ABUSE and TRAUMA detected keeps the five
\* LOW entries
C21_Witness ==
    /\ last.op = "interventions"
    /\ last.crisis_level = "low"
    /\ In("ISOLATION", last.detected_factors)
    /\ In("SUBSTANCE_ABUSE", last.detected_factors)
    /\ In("TRAUMA", last.detected_factors)
    /\ last.ret[5] = "Stay connected with others"

\* C22: for a pattern and two texts with the same negation flag, the second
\* matching one more keyword or one more context modifier of the pattern, the
\* score of the second is not lower; it is strictly higher with two keywords
\* matched than with one, and strictly higher with one modifier matched than with
\* none when one keyword is matched.
C22_MoreMatchesNeverLower ==
    last.op = "more" =>
        \A p \in { crisis_patterns[last.pattern] } :
            ( /\ negation_found(last.more) = negation_found(last.content)
              /\ keyword_matches(last.more, p) >= keyword_matches(last.content, p)
              /\ context_bonus(last.more, p) >= context_bonus(last.content, p) )
            => /\ last.ret_more >= last.ret
               /\ ( /\ keyword_matches(last.content, p) = 1
                    /\ keyword_matches(last.more, p) = 2 )
                  => last.ret_more > last.ret
               /\ ( /\ keyword_matches(last.content, p) = 1
                    /\ keyword_matches(last.more, p) = 1
                    /\ context_bonus(last.content, p) = 0
                    /\ context_bonus(last.more, p) = FP \div 10 )
                  => last.ret_more > last.ret

\* "hopeless" scored 0.24 and "hopeless no point" scored 0.64
C22_Witness ==
    /\ last.op = "more"
    /\ last.pattern = 3
    /\ last.content = "hopeless"
    /\ last.more = "hopeless no point"
    /\ last.ret = (24 * FP) \div 100
    /\ last.ret_more = (64 * FP) \div 100

\* C23: for the same length class, detected factors and risk score,
\* _calculate_confidence is strictly greater for a content with a first-person
\* intent phrase than for a content without one.
C23_ClearIntentStrictlyHigher ==
    ( /\ last.op = "confidence"
      /\ ContainsAny(lower(last.content), clear_indicators) )
    => \A other \in ConfidenceContents :
          ( /\ ~ContainsAny(lower(other), clear_indicators)
            /\ (Len(strip(other)) > 50) = (Len(strip(last.content)) > 50)
            /\ (Len(strip(other)) > 100) = (Len(strip(last.content)) > 100) )
          => _calculate_confidence(other, last.detected_factors, last.risk_score)
                < last.ret

\* C24: in every assessment assess_crisis_risk returns, escalation_needed is
\* true exactly when the level is HIGH or CRITICAL; immediate_action_required or
\* a risk score above 0.8 never comes with a level of NONE, LOW or MEDIUM.
C24_EscalationIffHighOrCritical ==
    last.op = "assess" =>
        /\ last.ret.escalation_needed <=> last.ret.crisis_level \in { "high", "critical" }
        /\ ( \/ last.ret.immediate_action_required
             \/ last.ret.risk_score > (8 * FP) \div 10 )
           => last.ret.crisis_level \in { "high", "critical" }

\* a MEDIUM assessment with a score above 0.5 that needs no escalation
C24_Witness ==
    /\ last.op = "assess"
    /\ last.ret.crisis_level = "medium"
    /\ last.ret.risk_score > (5 * FP) \div 10
    /\ ~last.ret.immediate_action_required
    /\ ~last.ret.escalation_needed

\* C25: in every assessment of the normal path of assess_crisis_risk, the level
\* is NONE exactly when no factor is detected and exactly when the risk score is
\* 0; a text with a keyword of any pattern, dampened by negation or not, is
\* assessed at LOW or above and, the store working, its event is stored.
C25_NoneIffNoFactorIffZero ==
    (last.op = "assess" /\ last.content.type = "str") =>
        /\ ~last.raised
        /\ (last.ret.crisis_level = "none") <=> (last.ret.detected_factors = << >>)
        /\ (last.ret.detected_factors = << >>) <=> (last.ret.risk_score = 0)
        /\ (\E i \in 1..Len(crisis_patterns) :
               ContainsAny(lower(last.content.v), crisis_patterns[i].keywords))
           => /\ last.ret.crisis_level # "none"
              /\ (last.db = "ok" /\ int(last.user_id).ok)
                 => /\ Len(events) = 1
                    /\ events[1].crisis_level = last.ret.crisis_level
                    /\ events[1].trigger_content = last.content

\* one keyword and a negation term: a score below 0.2, level LOW, event stored
C25_Witness ==
    /\ last.op = "assess"
    /\ last.content.type = "str"
    /\ negation_found(lower(last.content.v))
    /\ Len(last.ret.detected_factors) = 1
    /\ last.ret.risk_score > 0
    /\ last.ret.risk_score < (2 * FP) \div 10
    /\ last.ret.crisis_level = "low"
    /\ Len(events) = 1

\* C26: when a SUICIDAL_IDEATION or SELF_HARM keyword occurs in the content,
\* assess_crisis_risk returns HIGH or CRITICAL with escalation_needed, whatever
\* the risk score is and whether or not a negation term occurs.
C26_SuicidalOrSelfHarmAtLeastHigh ==
    ( /\ last.op = "assess"
      /\ last.content.type = "str"
      /\ \E i \in 1..Len(crisis_patterns) :
            /\ crisis_patterns[i].risk_factor \in { "SUICIDAL_IDEATION", "SELF_HARM" }
            /\ ContainsAny(lower(last.content.v), crisis_patterns[i].keywords) )
    => /\ ~last.raised
       /\ last.ret.crisis_level \in { "high", "critical" }
       /\ last.ret.escalation_needed

\* one negated SELF_HARM keyword: a score below 0.2, assessed HIGH with escalation
C26_Witness ==
    /\ last.op = "assess"
    /\ last.content.type = "str"
    /\ negation_found(lower(last.content.v))
    /\ last.ret.detected_factors = << "SELF_HARM" >>
    /\ last.ret.risk_score < (2 * FP) \div 10
    /\ last.ret.crisis_level = "high"
    /\ last.ret.escalation_needed

C28_EscalationChangesFlagAndLogOnly ==
    [][ last'.op = "escalate"
        => /\ Len(events') = Len(events)
           /\ \A j \in 1..Len(events) :
                 \/ events'[j] = events[j]
                 \/ /\ int(last'.user_id).ok
                    /\ events[j].user_id = int(last'.user_id).v
                    /\ \A k \in 1..Len(events) :
                          events[k].user_id = events[j].user_id
                              => events[k].created_at <= events[j].created_at
                    /\ events'[j].professional_notified = TRUE
                    /\ [ events'[j] EXCEPT !.professional_notified = FALSE,
                                           !.intervention_taken = "" ]
                       = [ events[j] EXCEPT !.professional_notified = FALSE,
                                            !.intervention_taken = "" ]
           /\ ( \/ ~int(last'.user_id).ok
                \/ \A j \in 1..Len(events) : events[j].user_id # int(last'.user_id).v )
              => events' = events
      ]_vars

\* a MEDIUM escalation with no action taken: the user's event below HIGH, stored
\* with professional_notified False, now carries the flag, and the event of the
\* other user before it still has none
C28_Witness ==
    /\ last.op = "escalate"
    /\ last.crisis_level = "medium"
    /\ last.ret.actions_taken = << >>
    /\ Len(events) = 2
    /\ int(last.user_id).ok
    /\ events[1].user_id # int(last.user_id).v
    /\ events[1].crisis_level \in { "none", "low", "medium" }
    /\ ~events[1].professional_notified
    /\ events[2].user_id = int(last.user_id).v
    /\ events[2].crisis_level \in { "none", "low", "medium" }
    /\ events[2].professional_notified
    /\ events[2].resolved_at = None


\* ------------------------------------------------------- conversation routes
\* the number of requests that write to the conversation store
MaxRequests == 3

\* _generate_crisis_response: the text for the level of an assessment
_generate_crisis_response(crisis_level) ==
    CASE crisis_level = "critical" ->
           "I'm very concerned about what you're sharing. Your safety is the top priority right now. "
           \o "Please contact emergency services (911) immediately if you're in immediate danger, or call "
           \o "the 988 Suicide & Crisis Lifeline. You don't have to go through this alone - help is available."
      [] crisis_level = "high" ->
           "I'm really concerned about you. What you're experiencing sounds very difficult. "
           \o "Please consider reaching out to the 988 Suicide & Crisis Lifeline (call or text 988) "
           \o "or contact a trusted person right away. Your safety and wellbeing matter."
      [] crisis_level = "medium" ->
           "I hear that you're going through a difficult time. It takes courage to share these feelings. "
           \o "Consider reaching out to a mental health professional or using the Crisis Text Line "
           \o "(text HOME to 741741). You deserve support during this challenging time."
      [] crisis_level = "low" ->
           "Thank you for sharing what you're experiencing. It's important to acknowledge these feelings. "
           \o "If things feel overwhelming, remember that support is available. Consider talking to someone "
           \o "you trust or a mental health professional."
      [] OTHER ->
           "Thank you for sharing. I'm here to listen and support you. How are you feeling today?"

\* _generate_mock_response on the lower-cased message: text and crisis_level
MockResponse(message_lower) ==
    IF ContainsAny(message_lower, << "suicide", "kill myself", "end my life",
                                     "want to die", "hurt myself", "self harm" >>)
    THEN [ text |-> "I'm really concerned about what you're sharing. Please consider reaching out to a crisis hotline: 988 (US). Your safety is important.",
           crisis_level |-> "high" ]
    ELSE IF ContainsAny(message_lower, << "anxious", "anxiety", "worried" >>)
    THEN [ text |-> "I understand you're feeling anxious. Can you tell me more about what's causing these feelings?",
           crisis_level |-> "none" ]
    ELSE IF ContainsAny(message_lower, << "sad", "depressed", "down" >>)
    THEN [ text |-> "I hear that you're feeling sad. Your feelings are valid. Would you like to share what's on your mind?",
           crisis_level |-> "none" ]
    ELSE [ text |-> "Thank you for sharing. I'm here to listen and support you. How are you feeling today?",
           crisis_level |-> "none" ]

_generate_mock_response(message_content) == MockResponse(lower(message_content))


\* d[k] = v on a dict
Put(d, k, v) == [ x \in DOMAIN d \cup { k } |-> IF x = k THEN v ELSE d[x] ]

\* a message dict of the routes; the POST of conversation_messages adds 'type'
Message(n, role, content, timestamp) ==
    [ id |-> "msg_" \o ToString(n), role |-> role, content |-> content,
      timestamp |-> timestamp ]

\* the JSON bodies of the chat, start and message requests: message is the value
\* of the key 'message' ('initial_message' for start)
ChatData(keys, message, conversation_id) ==
    [ keys |-> keys, message |-> message, conversation_id |-> conversation_id ]

\* the text of the AI message of chat
ChatText(assessment, message_content) ==
    IF assessment.crisis_level # "none"
    THEN _generate_crisis_response(assessment.crisis_level)
    ELSE _generate_mock_response(message_content).text

\* mock_messages after chat stored the user message and the AI message
ChatMessages(messages, cid, old, message_content, text, timestamp) ==
    Put(messages, cid,
        old \o << Message(Len(old), "user", message_content, timestamp),
                  Message(Len(old) + 1, "assistant", text, timestamp) >>)

\* mock_conversations after chat updated the conversation metadata
ChatMetadata(conversations, cid, user_id, count, timestamp) ==
    Put(conversations, cid,
        [ id |-> cid,
          user_id |-> user_id,
          created_at |-> IF cid \in DOMAIN conversations
                         THEN conversations[cid].created_at ELSE timestamp,
          last_message_at |-> timestamp,
          message_count |-> count ])

\* chat from the stored user message on: r is what assess_crisis_risk gave
ChatStore(conversations, messages, user_id, message_content, cid, old, r, timestamp) ==
    [ status |-> 200,
      body |-> [ conversation_id |-> cid,
                 response |-> ChatText(r.ret, message_content),
                 message_id |-> "msg_" \o ToString(Len(old) + 1) ],
      conversations |-> ChatMetadata(conversations, cid, user_id, Len(old) + 2, timestamp),
      messages |-> ChatMessages(messages, cid, old, message_content,
                                ChatText(r.ret, message_content), timestamp),
      events |-> r.events ]

\* POST /chat: status, body and the stores after it
chat(conversations, messages, table, user_id, data, db, timestamp) ==
    IF "message" \notin data.keys
    THEN [ status |-> 400, body |-> [ error |-> "Message is required" ],
           conversations |-> conversations, messages |-> messages, events |-> table ]
    ELSE LET cid == IF "conversation_id" \in data.keys THEN data.conversation_id
                    ELSE "conv_" \o ToString(timestamp)
         IN  ChatStore(conversations, messages, user_id, data.message, cid,
                       IF cid \in DOMAIN messages THEN messages[cid] ELSE << >>,
                       assess_crisis_risk(table, user_id, Str(data.message), "chat", db),
                       timestamp)

\* GET /history/<conversation_id> and the GET of /<conversation_id>/messages
get_conversation_history(conversations, messages, user_id, conversation_id) ==
    IF conversation_id \notin DOMAIN conversations
    THEN [ status |-> 404, body |-> [ error |-> "Conversation not found" ] ]
    ELSE IF conversations[conversation_id].user_id # user_id
    THEN [ status |-> 403, body |-> [ error |-> "Access denied" ] ]
    ELSE [ status |-> 200,
           body |-> [ conversation_id |-> conversation_id,
                      messages |-> IF conversation_id \in DOMAIN messages
                                   THEN messages[conversation_id] ELSE << >>,
                      total_messages |-> IF conversation_id \in DOMAIN messages
                                         THEN Len(messages[conversation_id]) ELSE 0 ] ]

\* POST /start
start_conversation(conversations, messages, user_id, data, timestamp) ==
    IF "initial_message" \notin data.keys
    THEN [ status |-> 400, body |-> [ error |-> "Initial message is required" ],
           conversations |-> conversations, messages |-> messages ]
    ELSE LET cid == "conv_" \o ToString(timestamp) \o "_" \o user_id
             ai_message == Message(1, "assistant",
                                   _generate_mock_response(data.message).text, timestamp)
         IN  [ status |-> 201,
               body |-> [ conversation_id |-> cid, ai_response |-> ai_message,
                          status |-> "success" ],
               conversations |->
                   Put(conversations, cid,
                       [ id |-> cid, user_id |-> user_id, type |-> "general",
                         created_at |-> timestamp, last_message_at |-> timestamp,
                         message_count |-> 2 ]),
               messages |->
                   Put(messages, cid,
                       << Message(0, "user", data.message, timestamp), ai_message >>) ]

\* the POST of /<conversation_id>/messages once the requester is the owner
PostMessage(conversations, messages, conversation_id, data, old, timestamp) ==
    IF "message" \notin data.keys
    THEN [ status |-> 400, body |-> [ error |-> "Message is required" ],
           conversations |-> conversations, messages |-> messages ]
    ELSE LET ai_message == Message(Len(old) + 1, "assistant",
                                   _generate_mock_response(data.message).text, timestamp)
         IN  [ status |-> 201,
               body |-> [ message_id |-> "msg_" \o ToString(Len(old)),
                          ai_response |-> ai_message, status |-> "success" ],
               conversations |->
                   [ conversations EXCEPT
                       ![conversation_id].message_count = Len(old) + 2,
                       ![conversation_id].last_message_at = timestamp ],
               messages |->
                   [ messages EXCEPT
                       ![conversation_id] =
                           old \o << [ id |-> "msg_" \o ToString(Len(old)),
                                       role |-> "user", content |-> data.message,
                                       type |-> "user", timestamp |-> timestamp ],
                                     ai_message >> ] ]

\* /<conversation_id>/messages, method GET or POST
conversation_messages(conversations, messages, user_id, conversation_id, method, data, timestamp) ==
    IF conversation_id \notin DOMAIN conversations
    THEN [ status |-> 404, body |-> [ error |-> "Conversation not found" ],
           conversations |-> conversations, messages |-> messages ]
    ELSE IF conversations[conversation_id].user_id # user_id
    THEN [ status |-> 403, body |-> [ error |-> "Access denied" ],
           conversations |-> conversations, messages |-> messages ]
    ELSE IF method = "GET"
    THEN [ status |-> 200,
           body |-> get_conversation_history(conversations, messages, user_id,
                                             conversation_id).body,
           conversations |-> conversations, messages |-> messages ]
    ELSE PostMessage(conversations, messages, conversation_id, data,
                     messages[conversation_id], timestamp)


\* the users, texts and client-chosen conversation ids of the requests
ConversationUsers == { "1", "2" }

ChatTexts == { "I feel so alone and isolated", "The weather is nice today" }

ChatIds == { "shared" }

ChatRequests ==
    { ChatData({}, "", "") }
      \cup { ChatData({ "message" }, m, "") : m \in ChatTexts }
      \cup { ChatData({ "message", "conversation_id" }, m, c) :
                m \in ChatTexts, c \in ChatIds }

StartRequests ==
    { ChatData({}, "", ""),
      ChatData({ "initial_message" }, "The weather is nice today", "") }

PostRequests ==
    { ChatData({}, "", ""),
      ChatData({ "message" }, "I feel so alone and isolated", "") }

\* one POST /chat
Chat(user_id, data) ==
    /\ clock < MaxRequests
    /\ \E r \in { chat(mock_conversations, mock_messages, events, user_id, data,
                       "ok", clock) } :
           /\ mock_conversations' = r.conversations
           /\ mock_messages' = r.messages
           /\ events' = r.events
           /\ last' = [ op |-> "chat", user_id |-> user_id, data |-> data,
                        status |-> r.status, body |-> r.body ]
    /\ clock' = clock + 1
    /\ UNCHANGED << escalations, updates, active_conversations >>

\* one POST /start
Start(user_id, data) ==
    /\ clock < MaxRequests
    /\ \E r \in { start_conversation(mock_conversations, mock_messages, user_id,
                                     data, clock) } :
           /\ mock_conversations' = r.conversations
           /\ mock_messages' = r.messages
           /\ last' = [ op |-> "start", user_id |-> user_id, data |-> data,
                        status |-> r.status, body |-> r.body ]
    /\ clock' = clock + 1
    /\ UNCHANGED << events, escalations, updates, active_conversations >>

\* one GET /history/<conversation_id>
History(user_id, conversation_id) ==
    /\ \E r \in { get_conversation_history(mock_conversations, mock_messages,
                                           user_id, conversation_id) } :
           last' = [ op |-> "history", user_id |-> user_id,
                     conversation_id |-> conversation_id,
                     status |-> r.status, body |-> r.body ]
    /\ UNCHANGED << events, escalations, updates, conversationVars >>

\* one GET /<conversation_id>/messages
GetMessages(user_id, conversation_id) ==
    /\ \E r \in { conversation_messages(mock_conversations, mock_messages, user_id,
                                        conversation_id, "GET",
                                        ChatData({}, "", ""), clock) } :
           last' = [ op |-> "messages", user_id |-> user_id,
                     conversation_id |-> conversation_id,
                     status |-> r.status, body |-> r.body ]
    /\ UNCHANGED << events, escalations, updates, conversationVars >>

\* one POST /<conversation_id>/messages
PostMessages(user_id, conversation_id, data) ==
    /\ clock < MaxRequests
    /\ \E r \in { conversation_messages(mock_conversations, mock_messages, user_id,
                                        conversation_id, "POST", data, clock) } :
           /\ mock_conversations' = r.conversations
           /\ mock_messages' = r.messages
           /\ last' = [ op |-> "post", user_id |-> user_id,
                        conversation_id |-> conversation_id, data |-> data,
                        status |-> r.status, body |-> r.body ]
    /\ clock' = clock + 1
    /\ UNCHANGED << events, escalations, updates, active_conversations >>

NextConversation ==
    \/ \E u \in ConversationUsers, data \in ChatRequests : Chat(u, data)
    \/ \E u \in ConversationUsers, data \in StartRequests : Start(u, data)
    \/ \E u \in ConversationUsers, c \in DOMAIN mock_conversations \cup ChatIds :
          History(u, c)
    \/ \E u \in ConversationUsers, c \in DOMAIN mock_conversations \cup ChatIds :
          GetMessages(u, c)
    \/ \E u \in ConversationUsers, c \in DOMAIN mock_conversations \cup ChatIds,
          data \in PostRequests :
          PostMessages(u, c, data)

\* the conversation routes under sequences of requests of two users
SpecConversation == Init /\ [][NextConversation]_vars

\* C29: the messages of a conversation are returned by the history and messages
\* endpoints only to the user who created it: no request of another user changes
\* the owner of an existing conversation, and a read of it by a user who is not
\* its owner is refused.
C29_OnlyTheCreatorOwnsAndReads ==
    [][ \A c \in DOMAIN mock_conversations :
           mock_conversations[c].user_id # last'.user_id
           => /\ c \in DOMAIN mock_conversations'
              /\ mock_conversations'[c].user_id = mock_conversations[c].user_id
              /\ ( last'.op \in { "history", "messages" } /\ last'.conversation_id = c )
                 => last'.status = 403
      ]_vars


\* ------------------------------------------------- conversation coordinator
\* the number of agent messages the coordinator handles
MaxAgentMessages == 4

\* ConversationState
ConversationState ==
    { "initializing", "active", "mood_focused", "crisis_handling", "ending",
      "completed" }

\* the text of the reply of the LLM service
LlmText == "I'm here to support you."

\* ActiveConversation(...) as _handle_start_conversation constructs it;
\* context_data holds None under 'mood_alert' and 'crisis_alert' for a missing key
ActiveConversation(user_id, session_id, conversation_type, initial_message, timestamp) ==
    [ user_id |-> user_id,
      session_id |-> session_id,
      state |-> "initializing",
      participating_agents |-> { "conversation_coordinator" },
      conversation_type |-> conversation_type,
      last_activity |-> timestamp,
      context_data |-> [ conversation_history |-> << >>,
                         user_preferences |-> EmptyDict,
                         mood_context |-> EmptyDict,
                         initial_message |-> initial_message,
                         mood_alert |-> None,
                         crisis_alert |-> None ],
      intervention_level |-> "none" ]

\* the agents the words of the lower-cased initial message bring in
MessageAgents(message_lower) ==
    (IF ContainsAny(message_lower, << "stressed", "anxiety", "anxious", "overwhelmed" >>)
     THEN { "coping_advisor" } ELSE {})
    \cup (IF ContainsAny(message_lower, << "write", "journal", "reflect", "think" >>)
          THEN { "journaling_assistant" } ELSE {})
    \cup (IF ContainsAny(message_lower, << "suicide", "hurt myself", "hopeless", "end it all" >>)
          THEN { "escalation_manager" } ELSE {})

\* _determine_required_agents
_determine_required_agents(conversation_type, initial_message) ==
    (IF conversation_type \in { "mood_check", "mental_health", "general" }
     THEN { "mood_tracker" } ELSE {})
    \cup { "crisis_detector" }
    \cup (IF conversation_type = "coping" THEN { "coping_advisor" }
          ELSE IF conversation_type = "journaling" THEN { "journaling_assistant" }
          ELSE {})
    \cup (IF initial_message = "" THEN {} ELSE MessageAgents(lower(initial_message)))

\* the conversation after _generate_coordinated_response: the history grows by
\* the exchange unless the LLM service raised and the fallback reply is used
Responded(conversation, user_message, llm) ==
    IF llm # "ok" THEN conversation
    ELSE [ conversation EXCEPT
             !.context_data.conversation_history =
                 @ \o << [ role |-> "user", content |-> user_message ],
                         [ role |-> "assistant", content |-> LlmText ] >> ]

\* the position of session_id in the dict active_conversations, 0 when missing
SessionIndex(conversations, session_id) ==
    IF \E i \in 1..Len(conversations) : conversations[i].session_id = session_id
    THEN CHOOSE i \in 1..Len(conversations) : conversations[i].session_id = session_id
    ELSE 0

\* self.active_conversations[session_id] = conversation: a present key keeps its
\* place in the dict
SetConversation(conversations, session_id, conversation) ==
    IF SessionIndex(conversations, session_id) = 0
    THEN Append(conversations, conversation)
    ELSE [ conversations EXCEPT ![SessionIndex(conversations, session_id)] = conversation ]

\* user_sessions[0]: the first conversation of the user in the dict, 0 for none
FirstSession(conversations, user_id) ==
    IF \E i \in 1..Len(conversations) : conversations[i].user_id = user_id
    THEN CHOOSE i \in 1..Len(conversations) :
            /\ conversations[i].user_id = user_id
            /\ \A j \in 1..(i - 1) : conversations[j].user_id # user_id
    ELSE 0

\* del self.active_conversations[session_id] at position i
DelConversation(conversations, i) ==
    SubSeq(conversations, 1, i - 1) \o SubSeq(conversations, i + 1, Len(conversations))

\* active_conversations after _handle_start_conversation
_handle_start_conversation(conversations, user_id, session_id, conversation_type, initial_message, llm, timestamp) ==
    SetConversation(conversations, session_id,
        [ Responded(
            [ ActiveConversation(user_id, session_id, conversation_type,
                                 initial_message, timestamp)
                EXCEPT !.participating_agents =
                    @ \cup _determine_required_agents(conversation_type, initial_message) ],
            initial_message, llm)
          EXCEPT !.state = "active", !.last_activity = timestamp ])

\* active_conversations after _handle_continue_conversation
_handle_continue_conversation(conversations, session_id, user_message, llm, timestamp) ==
    IF SessionIndex(conversations, session_id) = 0 THEN conversations
    ELSE [ conversations EXCEPT
             ![SessionIndex(conversations, session_id)] =
                 Responded([ @ EXCEPT !.last_activity = timestamp ], user_message, llm) ]

\* active_conversations after _handle_mood_alert
_handle_mood_alert(conversations, user_id, alert_data) ==
    IF FirstSession(conversations, user_id) = 0 THEN conversations
    ELSE [ conversations EXCEPT
             ![FirstSession(conversations, user_id)] =
                 [ @ EXCEPT !.intervention_level = "medium",
                            !.state = "mood_focused",
                            !.participating_agents = @ \cup { "coping_advisor" },
                            !.context_data.mood_alert = alert_data ] ]

\* active_conversations after _handle_crisis_alert
_handle_crisis_alert(conversations, user_id, crisis_data) ==
    IF FirstSession(conversations, user_id) = 0 THEN conversations
    ELSE [ conversations EXCEPT
             ![FirstSession(conversations, user_id)] =
                 [ @ EXCEPT !.intervention_level = "crisis",
                            !.state = "crisis_handling",
                            !.participating_agents = @ \cup { "escalation_manager" },
                            !.context_data.crisis_alert = crisis_data ] ]

\* active_conversations after _handle_end_conversation, and the conversation it
\* archived with state COMPLETED (None when the session is not active)
_handle_end_conversation(conversations, session_id) ==
    IF SessionIndex(conversations, session_id) = 0
    THEN [ conversations |-> conversations, archived |-> None ]
    ELSE [ conversations |->
               DelConversation(conversations, SessionIndex(conversations, session_id)),
           archived |->
               [ conversations[SessionIndex(conversations, session_id)]
                   EXCEPT !.state = "completed" ] ]


\* msg.session_id or the session id made of the time and the user; "" stands for
\* a session_id of None too, `or` takes both the same way
SessionId(session_id, user_id, timestamp) ==
    IF session_id = "" THEN "session_" \o ToString(timestamp) \o "_" \o user_id
    ELSE session_id

\* the users, session ids, payloads and LLM outcomes of the agent messages
CoordinatorUsers == { "1", "2" }

SessionIds == { "", "s1" }

ConversationTypes == { "general" }

InitialMessages == { "I feel hopeless and stressed" }

UserMessages == { "I am still anxious" }

LlmOutcomes == { "ok", "error" }

MoodAlertData == [ alert_type |-> "concerning_mood_pattern" ]

CrisisAlertData == [ crisis_keywords |-> << "hopeless" >>, confidence |-> "medium" ]

\* the session ids of the conversations the coordinator holds
ActiveSessions == { active_conversations[i].session_id : i \in 1..Len(active_conversations) }

\* one start_conversation message
StartConversation(user_id, session_id, conversation_type, initial_message, llm) ==
    /\ clock < MaxAgentMessages
    /\ active_conversations' =
           _handle_start_conversation(active_conversations, user_id,
               SessionId(session_id, user_id, clock), conversation_type,
               initial_message, llm, clock)
    /\ last' = [ op |-> "start_conversation", user_id |-> user_id,
                 session_id |-> SessionId(session_id, user_id, clock),
                 sent |-> "conversation_started" ]
    /\ clock' = clock + 1
    /\ UNCHANGED << events, escalations, updates, mock_conversations, mock_messages >>

\* one continue_conversation message
ContinueConversation(session_id, user_message, llm) ==
    /\ clock < MaxAgentMessages
    /\ active_conversations' =
           _handle_continue_conversation(active_conversations, session_id,
                                         user_message, llm, clock)
    /\ last' = [ op |-> "continue_conversation", session_id |-> session_id,
                 sent |-> IF session_id \in ActiveSessions
                          THEN "conversation_response" ELSE "" ]
    /\ clock' = clock + 1
    /\ UNCHANGED << events, escalations, updates, mock_conversations, mock_messages >>

\* one mood_alert message
MoodAlert(user_id) ==
    /\ clock < MaxAgentMessages
    /\ active_conversations' =
           _handle_mood_alert(active_conversations, user_id, MoodAlertData)
    /\ last' = [ op |-> "mood_alert", user_id |-> user_id,
                 sent |-> "alert_acknowledged" ]
    /\ clock' = clock + 1
    /\ UNCHANGED << events, escalations, updates, mock_conversations, mock_messages >>

\* one crisis_alert message
CrisisAlert(user_id) ==
    /\ clock < MaxAgentMessages
    /\ active_conversations' =
           _handle_crisis_alert(active_conversations, user_id, CrisisAlertData)
    /\ last' = [ op |-> "crisis_alert", user_id |-> user_id,
                 sent |-> "crisis_escalation" ]
    /\ clock' = clock + 1
    /\ UNCHANGED << events, escalations, updates, mock_conversations, mock_messages >>

\* one end_conversation message
EndConversation(session_id) ==
    /\ clock < MaxAgentMessages
    /\ \E r \in { _handle_end_conversation(active_conversations, session_id) } :
           /\ active_conversations' = r.conversations
           /\ last' = [ op |-> "end_conversation", session_id |-> session_id,
                        archived |-> r.archived, sent |-> "conversation_ended" ]
    /\ clock' = clock + 1
    /\ UNCHANGED << events, escalations, updates, mock_conversations, mock_messages >>

NextCoordinator ==
    \/ \E u \in CoordinatorUsers, sid \in SessionIds, t \in ConversationTypes,
          m \in InitialMessages, llm \in LlmOutcomes :
          StartConversation(u, sid, t, m, llm)
    \/ \E sid \in ActiveSessions \cup (SessionIds \ { "" }), m \in UserMessages,
          llm \in LlmOutcomes :
          ContinueConversation(sid, m, llm)
    \/ \E u \in CoordinatorUsers : MoodAlert(u)
    \/ \E u \in CoordinatorUsers : CrisisAlert(u)
    \/ \E sid \in ActiveSessions \cup (SessionIds \ { "" }) : EndConversation(sid)

\* the coordinator under sequences of agent messages about two users
SpecCoordinator == Init /\ [][NextCoordinator]_vars

====
